---- MODULE Spec2Model ----
(***************************************************************************)
(* Timed-message scheduler: the scheduled-message store, the scheduling    *)
(* service (schedule, cancel, dispatch) and the polling delivery workers.  *)
(* Every SQL statement of the repository is one atomic step on the store;  *)
(* steps of concurrent handlers and workers interleave freely.             *)
(***************************************************************************)
EXTENDS Integers, Sequences, FiniteSets, TLC

\* ------------------------------------------------------------------ bounds
\* rows the store may hold
MaxRecords == 2
\* single seconds the clock may advance within one lease period
MaxFine == 2
\* whole lease periods the clock may advance
MaxPeriods == 1
\* largest LIMIT a lone caller passes to list_upcoming
MaxLimit == 2

\* ------------------------------------------------------- program constants
LOCK_TIMEOUT_SECONDS == 300
batch_size == 10

NULL == -1

Workers == {"w1", "w2"}
Handlers == {"h1", "h2"}
Operator == "h1"
LiveWorker == "w2"

Statuses == {"SCHEDULED", "LOCKED", "SENT", "CANCELLED", "FAILED"}
Keys == {"k1", "k2"}
Payloads == {[chat_id |-> "c1", text |-> "t1"], [chat_id |-> "c2", text |-> "t2"]}
SendTimes == {1, 2}
TransportError == "gateway error"

\* Values the clock can take: a few seconds into each lease period.
Times == {p * LOCK_TIMEOUT_SECONDS + f : p \in 0..MaxPeriods, f \in 0..MaxFine}
LastTime == MaxPeriods * LOCK_TIMEOUT_SECONDS + MaxFine

VARIABLES
    store,      \* scheduled_messages table: sequence of rows, id = position
    clock,      \* wall clock, seconds
    sends,      \* per id: transport.send_message calls the gateway accepted
    locks,      \* per id: lock_for_sending calls that returned true
    wpc,        \* worker: position in run_forever / _run_once / send_message_if_due
    wbatch,     \* worker: due_messages still to iterate (ids)
    wmsg,       \* worker: msg_id being dispatched (0 = none)
    wnow,       \* worker: `now` read at the top of send_message_if_due
    wstatus,    \* worker: msg.status as loaded by get_by_id ("" = none)
    hpc,        \* handler: position in schedule_message / cancel_message
    harg,       \* handler: local data (message to create, id to cancel, value returned)
    qres,       \* result of the last direct repository query
    assistant_mode, \* WHATSAPP_ASSISTANT_MODE of the process environment
    common,     \* common_runtime.json: admin_sender_id, approved_numbers
    tmconf,     \* timed_messages_runtime.json: group_id, admin_setup_code
    pending,    \* InMemoryPendingAuthStore._entries: key -> entry
    flows,      \* InMemoryFlowStore._flows: (chat_id, sender_id) -> flow
    eres        \* what the last handled event returned and replied

vars == <<store, clock, sends, locks, wpc, wbatch, wmsg, wnow, wstatus, hpc, harg, qres,
          assistant_mode, common, tmconf, pending, flows, eres>>
workerVars == <<wpc, wbatch, wmsg, wnow, wstatus>>
handlerVars == <<hpc, harg>>
gatewayVars == <<sends, locks>>
configVars == <<assistant_mode, common, tmconf>>
eventVars == <<configVars, pending, flows, eres>>

\* Ids a caller may pass: those of the rows, and one that names no row.
AllIds == 1..(MaxRecords + 1)
CallIds == 1..(Len(store) + 1)
Exists(st, id) == id \in 1..Len(st)

NoArg == [kind |-> "none"]
NoQuery == [op |-> "none"]

\* ------------------------------------------------------ strings, sender ids

\* A string that the code takes apart is the sequence of its pieces: a digit,
\* "@", "+", a space, or a run of other characters such as "cancel" or "s".
Digits == {"0", "1", "2", "3", "4", "5", "6", "7", "8", "9"}
IsDigit(c) == c \in Digits
IsSpace(c) == c = " "

\* re.sub(r"\D", "", s)
DigitsOf(s) == SelectSeq(s, IsDigit)

\* s.strip()
RECURSIVE LStrip(_)
LStrip(s) == IF s # <<>> /\ IsSpace(Head(s)) THEN LStrip(Tail(s)) ELSE s
RECURSIVE RStrip(_)
RStrip(s) ==
    IF s # <<>> /\ IsSpace(s[Len(s)]) THEN RStrip(SubSeq(s, 1, Len(s) - 1)) ELSE s
Strip(s) == RStrip(LStrip(s))

\* text.split(None, 1): the first word, and the stripped rest.
RECURSIVE FirstWord(_)
FirstWord(s) ==
    IF s = <<>> \/ IsSpace(Head(s)) THEN <<>> ELSE <<Head(s)>> \o FirstWord(Tail(s))
SplitHead(text) == FirstWord(Strip(text))
SplitRest(text) ==
    LET t == Strip(text) IN Strip(SubSeq(t, Len(SplitHead(text)) + 1, Len(t)))

\* A text left in the case it came in.
LowerAsIs(s) == s

\* s.lower(), for the words the handlers compare in lower case.
Lower(s) ==
    [i \in 1..Len(s) |-> IF s[i] \in {"Cancel", "CANCEL"} THEN "cancel" ELSE s[i]]

\* normalize_sender_id: the digits, or the stripped original when it has none.
normalize_sender_id(sender_id) ==
    IF DigitsOf(sender_id) # <<>> THEN DigitsOf(sender_id) ELSE Strip(sender_id)

\* regexp_replace(COALESCE(from_chat_id, ''), '[^0-9]', '', 'g')
sql_digits(from_chat_id) == DigitsOf(from_chat_id)

\* Sender ids: "1@s" and "+1" are one number written two ways, "2@s" another
\* number, "ab" an id without digits (a LID-style id), "" a missing id.
Sender1 == <<"1", "@", "s">>
Sender1Plus == <<"+", "1">>
Sender2 == <<"2", "@", "s">>
SenderNoDigits == <<"a", "b">>
NoSender == <<>>

\* Chats: a group and another group.
Group1 == <<"g", "1">>
Group2 == <<"g", "2">>

\* --------------------------------------------------------------- repository

\* ScheduledMessage(...) as built by schedule_message. created_at, updated_at,
\* source and reason are written but read by no operation, and are left out.
\* uuid is the first 12 hex digits of id = uuid4(); a missing from_chat_id
\* (None) and an empty one are both <<>>, as no operation tells them apart.
NewMessage(req, now) ==
    [ uuid |-> req.uuid,
      chat_id |-> req.payload.chat_id,
      from_chat_id |-> req.from_chat_id,
      confirmation_message_id |-> "",
      text |-> req.payload.text,
      send_at |-> req.send_at,
      status |-> "SCHEDULED",
      locked_at |-> NULL,
      sent_at |-> NULL,
      attempt_count |-> 0,
      last_error |-> "",
      idempotency_key |-> req.idempotency_key ]

\* INSERT INTO scheduled_messages: the table has a primary key on id only.
create(st, msg) == Append(st, msg)

\* SELECT * WHERE idempotency_key = key: the ids of the matching rows
\* (fetchone() takes one of them).
find_by_idempotency_key(st, key) ==
    {id \in 1..Len(st) : st[id].idempotency_key = key}

\* The due query with `locked_at <= stale_before` for `<`.
FindDueWhereInclusive(r, now, stale_before) ==
    \/ r.status = "SCHEDULED" /\ r.send_at <= now
    \/ /\ r.status = "LOCKED"
       /\ r.send_at <= now
       /\ (r.locked_at = NULL \/ r.locked_at <= stale_before)

\* WHERE clause of the due query.
FindDueWhere(r, now, stale_before) ==
    \/ r.status = "SCHEDULED" /\ r.send_at <= now
    \/ /\ r.status = "LOCKED"
       /\ r.send_at <= now
       /\ (r.locked_at = NULL \/ r.locked_at < stale_before)

IsSortedBy(st, s) ==
    \A i, j \in 1..Len(s) : i < j => st[s[i]].send_at <= st[s[j]].send_at


Min(a, b) == IF a < b THEN a ELSE b

\* ORDER BY send_at LIMIT limit: every result the query can give (rows with
\* equal send_at come in either order).
find_due(st, now, limit) ==
    LET stale_before == now - LOCK_TIMEOUT_SECONDS
        due == {id \in 1..Len(st) : FindDueWhere(st[id], now, stale_before)}
        n == Min(limit, Cardinality(due))
    IN  {s \in [1..n -> due] :
            /\ \A i, j \in 1..n : i # j => s[i] # s[j]
            /\ IsSortedBy(st, s)
            /\ \A id \in due : (\E i \in 1..n : s[i] = id)
                               \/ (\A i \in 1..n : st[s[i]].send_at <= st[id].send_at)}

\* The lock UPDATE that never re-claims a LOCKED row.
LockWhereScheduledOnly(r, now) == r.status = "SCHEDULED"

\* The lock UPDATE with `locked_at <= now - timeout` for `<`.
LockWhereInclusive(r, now) ==
    \/ r.status = "SCHEDULED"
    \/ /\ r.status = "LOCKED"
       /\ (r.locked_at = NULL \/ r.locked_at <= now - LOCK_TIMEOUT_SECONDS)

\* The lock UPDATE with the lease test left out.
LockWhereIgnoringLease(r, now) ==
    r.status \in {"SCHEDULED", "LOCKED"}

\* WHERE clause of the lock UPDATE (without id = ...).
LockWhere(r, now) ==
    \/ r.status = "SCHEDULED"
    \/ /\ r.status = "LOCKED"
       /\ (r.locked_at = NULL \/ r.locked_at < now - LOCK_TIMEOUT_SECONDS)

\* The lock UPDATE that stamps locked_at and leaves the status as it was.
LockSetLockedAtOnly(r, now) ==
    [r EXCEPT !.locked_at = now]

LockSet(r, now) ==
    [r EXCEPT !.status = "LOCKED", !.locked_at = now]

\* UPDATE ... SET status = 'LOCKED' ...; returns rowcount == 1.
lock_rowcount(st, id, now) ==
    IF Exists(st, id) /\ LockWhere(st[id], now) THEN 1 ELSE 0

lock(st, id, now) ==
    IF Exists(st, id) /\ LockWhere(st[id], now)
    THEN [st EXCEPT ![id] = LockSet(st[id], now)]
    ELSE st

\* mark_sent that sets the status alone.
mark_sent_status_only(st, id, sent_at) ==
    IF Exists(st, id)
    THEN [st EXCEPT ![id] = [@ EXCEPT !.status = "SENT"]]
    ELSE st

\* UPDATE ... SET status = 'SENT', sent_at, updated_at WHERE id = ...
mark_sent(st, id, sent_at) ==
    IF Exists(st, id)
    THEN [st EXCEPT ![id] = [@ EXCEPT !.status = "SENT",
                                      !.sent_at = sent_at]]
    ELSE st

\* mark_failed without attempt_count = attempt_count + 1.
mark_failed_no_count(st, id, error) ==
    IF Exists(st, id)
    THEN [st EXCEPT ![id] = [@ EXCEPT !.status = "FAILED", !.last_error = error]]
    ELSE st

\* UPDATE ... SET status = 'FAILED', last_error, attempt_count + 1 WHERE id = ...
mark_failed(st, id, error) ==
    IF Exists(st, id)
    THEN [st EXCEPT ![id] = [@ EXCEPT !.status = "FAILED",
                                      !.last_error = error,
                                      !.attempt_count = @ + 1]]
    ELSE st

\* UPDATE ... SET status = 'CANCELLED' WHERE id = ... AND status != 'SENT'
cancel(st, id) ==
    IF Exists(st, id) /\ st[id].status # "SENT"
    THEN [st EXCEPT ![id] = [@ EXCEPT !.status = "CANCELLED"]]
    ELSE st

\* ------------------------------------------------------------ runtime config

\* approved_numbers() as the stored list alone.
approved_numbers_stored(c) ==
    {normalize_sender_id(v) : v \in {x \in c.approved_numbers : normalize_sender_id(x) # <<>>}}

\* CommonRuntimeConfig.approved_numbers(): the stored numbers, normalized,
\* and the admin's normalized id.
approved_numbers(c) ==
    {normalize_sender_id(v) : v \in {x \in c.approved_numbers : normalize_sender_id(x) # <<>>}}
        \cup {normalize_sender_id(a) : a \in {x \in {c.admin_sender_id} : normalize_sender_id(x) # <<>>}}

\* CommonRuntimeConfig.remove_approved_number
remove_approved_number(c, number) ==
    IF normalize_sender_id(number) = <<>>
    THEN c
    ELSE [c EXCEPT !.approved_numbers =
              {n \in @ : normalize_sender_id(n) # normalize_sender_id(number)}]

\* CommonRuntimeConfig.is_sender_approved
is_sender_approved(c, sender_id) ==
    /\ normalize_sender_id(sender_id) # <<>>
    /\ normalize_sender_id(sender_id) \in approved_numbers(c)

\* CommonRuntimeConfig.add_approved_number
add_approved_number(c, number) ==
    IF normalize_sender_id(number) = <<>>
    THEN c
    ELSE [c EXCEPT !.approved_numbers = @ \cup {normalize_sender_id(number)}]

\* CommonRuntimeConfig.set_admin_sender_id
common_set_admin_sender_id(c, sender_id) ==
    [ admin_sender_id |-> sender_id,
      approved_numbers |->
          IF normalize_sender_id(sender_id) # <<>>
          THEN c.approved_numbers \cup {normalize_sender_id(sender_id)}
          ELSE c.approved_numbers ]

\* TimedMessagesRuntimeConfig.set_admin_sender_id, after the common part:
\* the setup code is used up.
clear_admin_setup_code(t) == [t EXCEPT !.admin_setup_code = <<>>]

\* TimedMessagesRuntimeConfig.set_scheduling_group / clear_scheduling_group
set_scheduling_group(t, group_id) == [t EXCEPT !.group_id = group_id]
clear_scheduling_group(t) == [t EXCEPT !.group_id = <<>>]

\* Setup codes _generate_setup_code can draw, and auth codes the
\* SixDigitAuthCodeGenerator can draw.
SetupCodes == {<<"s1">>, <<"s2">>}
AuthCodes == {<<"a1">>, <<"a2">>}

\* TimedMessagesRuntimeConfig.admin_setup_code(): the stored code, or a fresh
\* one that is stored first. The codes it may return.
admin_setup_code(t) ==
    IF t.admin_setup_code # <<>> THEN {t.admin_setup_code} ELSE SetupCodes

\* The file after admin_setup_code() returned `code`.
after_admin_setup_code(t, code) == [t EXCEPT !.admin_setup_code = code]

\* ------------------------------------------------------- auth and flow store

\* WhatsAppEventService._auth_ttl and _flow_ttl, in seconds.
AUTH_TTL_SECONDS == 1800
FLOW_TTL_SECONDS == 1800

\* A Python dict: a function on the keys it holds.
EmptyDict == [k \in {} |-> NULL]
DictSet(d, key, value) ==
    [k \in DOMAIN d \cup {key} |-> IF k = key THEN value ELSE d[k]]
DictPop(d, key) == [k \in DOMAIN d \ {key} |-> d[k]]

NoFlow ==
    [ step |-> "none", request_id |-> "", sender_id |-> <<>>,
      updated_at |-> NULL, to_chat_id |-> <<>>, send_at |-> NULL ]

\* A get that never lets a flow expire.
flow_get_forever(f, key, now) ==
    IF key \notin DOMAIN f THEN NoFlow ELSE f[key]

\* InMemoryFlowStore.get: the flow, none when absent or expired.
flow_get(f, key, now) ==
    IF key \notin DOMAIN f THEN NoFlow
    ELSE IF now - f[key].updated_at > FLOW_TTL_SECONDS THEN NoFlow
    ELSE f[key]

\* InMemoryFlowStore.get pops an expired flow.
flow_after_get(f, key, now) ==
    IF key \in DOMAIN f /\ now - f[key].updated_at > FLOW_TTL_SECONDS
    THEN DictPop(f, key)
    ELSE f

\* InMemoryFlowStore.set
flow_set(f, key, value) == DictSet(f, key, value)

\* A clear that drops every flow of the key's chat.
flow_clear_chat(f, key) == [k \in {x \in DOMAIN f : x[1] # key[1]} |-> f[k]]

\* InMemoryFlowStore.clear
flow_clear(f, key) == DictPop(f, key)

NoEvent == [op |-> "none"]

NoEntry == [code |-> <<>>, updated_at |-> NULL]

\* A get that never lets an entry expire.
pending_get_forever(p, key, now) ==
    IF key \notin DOMAIN p THEN NoEntry ELSE p[key]

\* InMemoryPendingAuthStore.get: the entry, none when absent or expired.
pending_get(p, key, now) ==
    IF key \notin DOMAIN p THEN NoEntry
    ELSE IF now - p[key].updated_at > AUTH_TTL_SECONDS THEN NoEntry
    ELSE p[key]

\* A get that uses the entry up.
pending_after_get_consuming(p, key, now) == DictPop(p, key)

\* InMemoryPendingAuthStore.get pops an expired entry.
pending_after_get(p, key, now) ==
    IF key \in DOMAIN p /\ now - p[key].updated_at > AUTH_TTL_SECONDS
    THEN DictPop(p, key)
    ELSE p

\* A set that keeps the entry a key already has.
pending_set_if_absent(p, key, code, now) ==
    IF key \in DOMAIN p THEN p
    ELSE DictSet(p, key, [code |-> code, updated_at |-> now])

\* InMemoryPendingAuthStore.set / clear
pending_set(p, key, code, now) ==
    DictSet(p, key, [code |-> code, updated_at |-> now])
pending_clear(p, key) == DictPop(p, key)

\* ------------------------------------------------------------------- clock

Init ==
    /\ store = <<>>
    /\ clock = 0
    /\ sends = [id \in AllIds |-> 0]
    /\ locks = [id \in AllIds |-> 0]
    /\ wpc = [w \in Workers |-> "idle"]
    /\ wbatch = [w \in Workers |-> <<>>]
    /\ wmsg = [w \in Workers |-> 0]
    /\ wnow = [w \in Workers |-> NULL]
    /\ wstatus = [w \in Workers |-> ""]
    /\ hpc = [h \in Handlers |-> "idle"]
    /\ harg = [h \in Handlers |-> NoArg]
    /\ qres = NoQuery
    /\ assistant_mode = FALSE
    /\ common = [admin_sender_id |-> NoSender, approved_numbers |-> {}]
    /\ tmconf = [group_id |-> <<>>, admin_setup_code |-> <<"s1">>]
    /\ pending = EmptyDict
    /\ flows = EmptyDict
    /\ eres = NoEvent

\* Time passes: d seconds.
Tick(d) ==
    /\ clock + d \in Times
    /\ clock' = clock + d
    /\ UNCHANGED <<store, gatewayVars, workerVars, handlerVars, qres, eventVars>>

TickSecond == Tick(1)
TickLease == Tick(LOCK_TIMEOUT_SECONDS)

\* ------------------------------------------------------------------ worker

\* The `return` of send_message_if_due (or the except of _run_once): the for
\* loop takes the next due message; after the last one _run_once returns and
\* run_forever polls again.
NextOfBatch(w) ==
    /\ wbatch' = [wbatch EXCEPT ![w] = Tail(@)]
    /\ wpc' = [wpc EXCEPT ![w] = IF Len(wbatch[w]) > 1 THEN "batch" ELSE "idle"]
    /\ wmsg' = [wmsg EXCEPT ![w] = 0]
    /\ wnow' = [wnow EXCEPT ![w] = NULL]
    /\ wstatus' = [wstatus EXCEPT ![w] = ""]

\* _run_once: list_due_messages(limit=batch_size); an empty batch sleeps.
run_once(w) ==
    /\ wpc[w] = "idle"
    /\ \E due \in find_due(store, clock, batch_size) :
          IF due = <<>>
          THEN UNCHANGED workerVars
          ELSE /\ wbatch' = [wbatch EXCEPT ![w] = due]
               /\ wpc' = [wpc EXCEPT ![w] = "batch"]
               /\ UNCHANGED <<wmsg, wnow, wstatus>>
    /\ UNCHANGED <<store, clock, gatewayVars, handlerVars, qres, eventVars>>

\* The checks of send_message_if_due with the due test turned around.
DispatchableDueReversed(st, id, now) ==
    /\ Exists(st, id)
    /\ st[id].status \notin {"CANCELLED", "SENT", "FAILED"}
    /\ ~(st[id].send_at < now)

\* send_message_if_due without its `if msg.send_at > now: return`.
DispatchableNotDue(st, id, now) ==
    /\ Exists(st, id)
    /\ st[id].status \notin {"CANCELLED", "SENT", "FAILED"}

\* The checks of send_message_if_due on the loaded message.
Dispatchable(st, id, now) ==
    /\ Exists(st, id)
    /\ st[id].status \notin {"CANCELLED", "SENT", "FAILED"}
    /\ ~(st[id].send_at > now)

\* send_message_if_due, up to the lock: now = clock(); msg = get_by_id(...).
dispatch_load(w) ==
    /\ wpc[w] = "batch"
    /\ LET id == Head(wbatch[w]) IN
          IF Dispatchable(store, id, clock)
          THEN /\ wpc' = [wpc EXCEPT ![w] = "lock"]
               /\ wmsg' = [wmsg EXCEPT ![w] = id]
               /\ wnow' = [wnow EXCEPT ![w] = clock]
               /\ wstatus' = [wstatus EXCEPT ![w] = store[id].status]
               /\ UNCHANGED wbatch
          ELSE NextOfBatch(w)
    /\ UNCHANGED <<store, clock, gatewayVars, handlerVars, qres, eventVars>>

\* send_message_if_due without its `if not locked: return`.
AfterLockNoReturn(locked) == "send"

\* `if not locked: return`: where send_message_if_due goes after the lock call.
AfterLock(locked) == IF locked THEN "send" ELSE "not_locked"

\* locked = repo.lock_for_sending(msg_id, now)
dispatch_lock(w) ==
    /\ wpc[w] = "lock"
    /\ LET id == wmsg[w]
           locked == lock_rowcount(store, id, wnow[w]) = 1
       IN  /\ store' = lock(store, id, wnow[w])
           /\ locks' = [locks EXCEPT ![id] = IF locked THEN @ + 1 ELSE @]
           /\ wpc' = [wpc EXCEPT ![w] = AfterLock(locked)]
    /\ UNCHANGED <<clock, sends, wbatch, wmsg, wnow, wstatus, handlerVars, qres, eventVars>>

\* if not locked: return
dispatch_not_locked(w) ==
    /\ wpc[w] = "not_locked"
    /\ NextOfBatch(w)
    /\ UNCHANGED <<store, clock, gatewayVars, handlerVars, qres, eventVars>>

\* transport.send_message(...) returns: the gateway accepted the message.
transport_ok(w) ==
    /\ wpc[w] = "send"
    /\ sends' = [sends EXCEPT ![wmsg[w]] = @ + 1]
    /\ wpc' = [wpc EXCEPT ![w] = "mark_sent"]
    /\ UNCHANGED <<store, clock, locks, wbatch, wmsg, wnow, wstatus, handlerVars, qres, eventVars>>

\* transport.send_message(...) raises.
transport_raise(w) ==
    /\ wpc[w] = "send"
    /\ wpc' = [wpc EXCEPT ![w] = "mark_failed"]
    /\ UNCHANGED <<store, clock, gatewayVars, wbatch, wmsg, wnow, wstatus, handlerVars, qres, eventVars>>

\* self.repo.mark_sent(msg_id, sent_at=now)
dispatch_mark_sent(w) ==
    /\ wpc[w] = "mark_sent"
    /\ store' = mark_sent(store, wmsg[w], wnow[w])
    /\ NextOfBatch(w)
    /\ UNCHANGED <<clock, gatewayVars, handlerVars, qres, eventVars>>

\* except: self.repo.mark_failed(msg_id, error=str(e)); raise
dispatch_mark_failed(w) ==
    /\ wpc[w] = "mark_failed"
    /\ store' = mark_failed(store, wmsg[w], TransportError)
    /\ wpc' = [wpc EXCEPT ![w] = "raised"]
    /\ UNCHANGED <<clock, gatewayVars, wbatch, wmsg, wnow, wstatus, handlerVars, qres, eventVars>>

\* An except that ends the iteration: the rest of the batch is dropped.
run_once_except_stops(w) ==
    /\ wpc[w] = "raised"
    /\ wbatch' = [wbatch EXCEPT ![w] = <<>>]
    /\ wpc' = [wpc EXCEPT ![w] = "idle"]
    /\ wmsg' = [wmsg EXCEPT ![w] = 0]
    /\ wnow' = [wnow EXCEPT ![w] = NULL]
    /\ wstatus' = [wstatus EXCEPT ![w] = ""]
    /\ UNCHANGED <<store, clock, gatewayVars, handlerVars, qres, eventVars>>

\* _run_once: except Exception: logger.exception(...) and on to the next message.
run_once_except(w) ==
    /\ wpc[w] = "raised"
    /\ NextOfBatch(w)
    /\ UNCHANGED <<store, clock, gatewayVars, handlerVars, qres, eventVars>>

\* The worker process dies in the middle of a batch.
crash(w) ==
    /\ wpc[w] \notin {"idle", "down"}
    /\ wpc' = [wpc EXCEPT ![w] = "down"]
    /\ wbatch' = [wbatch EXCEPT ![w] = <<>>]
    /\ wmsg' = [wmsg EXCEPT ![w] = 0]
    /\ wnow' = [wnow EXCEPT ![w] = NULL]
    /\ wstatus' = [wstatus EXCEPT ![w] = ""]
    /\ UNCHANGED <<store, clock, gatewayVars, handlerVars, qres, eventVars>>

\* The worker process is started again: run_forever.
restart(w) ==
    /\ wpc[w] = "down"
    /\ wpc' = [wpc EXCEPT ![w] = "idle"]
    /\ UNCHANGED <<store, clock, gatewayVars, wbatch, wmsg, wnow, wstatus, handlerVars, qres, eventVars>>

\* ----------------------------------------------------------------- service

\* The first 12 hex digits uuid4() can give a new record.
Uuids == {"p1", "p2"}

\* Arguments of a schedule_message call, and the uuid4() it draws;
\* aware = send_at carries a tzinfo.
RequestsOf(keys, payloads, senders, uuids) ==
    [ idempotency_key : keys, payload : payloads, from_chat_id : senders,
      send_at : SendTimes, aware : BOOLEAN, uuid : uuids ]

Requests == RequestsOf(Keys, Payloads, {Sender1}, {"p1"})

\* Rows not yet inserted by a schedule_message that is past its idempotency check.
Creating == Cardinality({h \in Handlers : hpc[h] = "create"})

\* schedule_message up to the idempotency check: validation, then
\* existing = find_by_idempotency_key(...); `if existing: return existing`.
schedule_message(h, req) ==
    /\ hpc[h] = "idle"
    /\ LET now == clock
           existing == find_by_idempotency_key(store, req.idempotency_key)
       IN  IF ~req.aware
           THEN /\ hpc' = [hpc EXCEPT ![h] = "done"]
                /\ harg' = [harg EXCEPT ![h] =
                      [kind |-> "error", op |-> "schedule",
                       reason |-> "send_at must be timezone-aware (UTC)"]]
           ELSE IF req.send_at <= now
           THEN /\ hpc' = [hpc EXCEPT ![h] = "done"]
                /\ harg' = [harg EXCEPT ![h] =
                      [kind |-> "error", op |-> "schedule",
                       reason |-> "send_at must be in the future"]]
           ELSE IF assistant_mode /\ req.from_chat_id = <<>>
           THEN /\ hpc' = [hpc EXCEPT ![h] = "done"]
                /\ harg' = [harg EXCEPT ![h] =
                      [kind |-> "error", op |-> "schedule",
                       reason |-> "from_chat_id required in assistant mode"]]
           ELSE IF existing # {}
           THEN \E id \in existing :
                /\ hpc' = [hpc EXCEPT ![h] = "done"]
                /\ harg' = [harg EXCEPT ![h] =
                      [kind |-> "existing", op |-> "schedule", id |-> id,
                       key |-> req.idempotency_key]]
           ELSE /\ Len(store) + Creating < MaxRecords
                /\ hpc' = [hpc EXCEPT ![h] = "create"]
                /\ harg' = [harg EXCEPT ![h] =
                      [kind |-> "msg", msg |-> NewMessage(req, now)]]
    /\ UNCHANGED <<store, clock, gatewayVars, workerVars, qres, eventVars>>

\* self.repo.create(msg); return msg
schedule_create(h) ==
    /\ hpc[h] = "create"
    /\ store' = create(store, harg[h].msg)
    /\ hpc' = [hpc EXCEPT ![h] = "done"]
    /\ harg' = [harg EXCEPT ![h] =
          [kind |-> "created", op |-> "schedule", id |-> Len(store) + 1,
           key |-> harg[h].msg.idempotency_key]]
    /\ UNCHANGED <<clock, gatewayVars, workerVars, qres, eventVars>>

\* cancel_message up to repo.cancel: msg = get_by_id(...) and the status checks.
cancel_message(h, id) ==
    /\ hpc[h] = "idle"
    /\ IF ~Exists(store, id)
       THEN /\ hpc' = [hpc EXCEPT ![h] = "done"]
            /\ harg' = [harg EXCEPT ![h] = [kind |-> "noop", op |-> "cancel", id |-> id]]
       ELSE IF store[id].status = "SENT"
       THEN /\ hpc' = [hpc EXCEPT ![h] = "done"]
            /\ harg' = [harg EXCEPT ![h] =
                  [kind |-> "error", op |-> "cancel",
                   reason |-> "Cannot cancel a sent message"]]
       ELSE IF store[id].status = "CANCELLED"
       THEN /\ hpc' = [hpc EXCEPT ![h] = "done"]
            /\ harg' = [harg EXCEPT ![h] = [kind |-> "noop", op |-> "cancel", id |-> id]]
       ELSE /\ hpc' = [hpc EXCEPT ![h] = "cancel"]
            /\ harg' = [harg EXCEPT ![h] = [kind |-> "id", id |-> id]]
    /\ UNCHANGED <<store, clock, gatewayVars, workerVars, qres, eventVars>>

\* self.repo.cancel(msg_id)
cancel_commit(h) ==
    /\ hpc[h] = "cancel"
    /\ store' = cancel(store, harg[h].id)
    /\ hpc' = [hpc EXCEPT ![h] = "done"]
    /\ harg' = [harg EXCEPT ![h] = [kind |-> "cancelled", op |-> "cancel", id |-> harg[h].id]]
    /\ UNCHANGED <<clock, gatewayVars, workerVars, qres, eventVars>>

\* The call returns (or raises) to the HTTP layer; the handler is free again.
handler_return(h) ==
    /\ hpc[h] = "done"
    /\ hpc' = [hpc EXCEPT ![h] = "idle"]
    /\ harg' = [harg EXCEPT ![h] = NoArg]
    /\ UNCHANGED <<store, clock, gatewayVars, workerVars, qres, eventVars>>

\* ------------------------------------------- direct calls by a lone client

\* schedule_message raising its past-time error under another message.
ScheduleErrorReworded(req, now, assistant) ==
    IF ~req.aware THEN "send_at must be timezone-aware (UTC)"
    ELSE IF req.send_at <= now THEN "send_at is in the past"
    ELSE IF assistant /\ req.from_chat_id = <<>>
    THEN "from_chat_id required in assistant mode"
    ELSE ""

\* The ValueError schedule_message raises for req at `now`, "" when none.
\* (The mutant takes a send_at equal to now.)
ScheduleErrorLax(req, now, assistant) ==
    IF ~req.aware THEN "send_at must be timezone-aware (UTC)"
    ELSE IF req.send_at < now THEN "send_at must be in the future"
    ELSE IF assistant /\ req.from_chat_id = <<>>
    THEN "from_chat_id required in assistant mode"
    ELSE ""

ScheduleError(req, now, assistant) ==
    IF ~req.aware THEN "send_at must be timezone-aware (UTC)"
    ELSE IF req.send_at <= now THEN "send_at must be in the future"
    ELSE IF assistant /\ req.from_chat_id = <<>>
    THEN "from_chat_id required in assistant mode"
    ELSE ""

\* schedule_message(...) run to its end by a lone caller.
schedule_call(req) ==
    /\ LET now == clock
           existing == find_by_idempotency_key(store, req.idempotency_key)
       IN  IF ScheduleError(req, now, assistant_mode) # ""
           THEN /\ qres' = [op |-> "schedule", ret |-> "raised"]
                /\ UNCHANGED store
           ELSE IF existing # {}
           THEN /\ qres' = [op |-> "schedule", ret |-> "existing"]
                /\ UNCHANGED store
           ELSE /\ Len(store) < MaxRecords
                /\ store' = create(store, NewMessage(req, now))
                /\ qres' = [op |-> "schedule", ret |-> "created"]
    /\ UNCHANGED <<clock, gatewayVars, workerVars, handlerVars, eventVars>>

\* repo.lock_for_sending(id, now)
repo_lock(id) ==
    /\ store' = lock(store, id, clock)
    /\ qres' = [op |-> "lock", id |-> id,
                was |-> IF Exists(store, id) THEN store[id].status ELSE "missing",
                ret |-> (lock_rowcount(store, id, clock) = 1)]
    /\ UNCHANGED <<clock, gatewayVars, workerVars, handlerVars, eventVars>>

\* repo.list_upcoming(now, limit)
repo_list_upcoming(limit) ==
    /\ \E due \in find_due(store, clock, limit) :
          qres' = [op |-> "list", limit |-> limit, ret |-> due]
    /\ UNCHANGED <<store, clock, gatewayVars, workerVars, handlerVars, eventVars>>

\* repo.cancel(id)
repo_cancel(id) ==
    /\ store' = cancel(store, id)
    /\ qres' = [op |-> "cancel"]
    /\ UNCHANGED <<clock, gatewayVars, workerVars, handlerVars, eventVars>>

\* UPDATE ... SET <every column> WHERE id = ...
update_metadata(st, id, message) ==
    IF Exists(st, id) THEN [st EXCEPT ![id] = message] ELSE st

\* repo.update_metadata(id, message): a row put back in the queue by hand,
\* its lease cleared.
repo_update_metadata(id) ==
    /\ Exists(store, id)
    /\ store[id].status \in {"SCHEDULED", "LOCKED"}
    /\ store' = update_metadata(store, id,
                    [store[id] EXCEPT !.status = "LOCKED", !.locked_at = NULL])
    /\ qres' = [op |-> "update_metadata"]
    /\ UNCHANGED <<clock, gatewayVars, workerVars, handlerVars, eventVars>>

\* send_message_if_due(id, transport, None) run to its end by a lone caller;
\* raises = the transport raises.
send_message_if_due(id, raises) ==
    /\ LET now == clock
           locked == lock_rowcount(store, id, now) = 1
           st1 == lock(store, id, now)
       IN  IF ~Dispatchable(store, id, now)
           THEN /\ qres' = [op |-> "dispatch", id |-> id, ret |-> "returned"]
                /\ UNCHANGED <<store, gatewayVars>>
           ELSE IF AfterLock(locked) # "send"
           THEN /\ qres' = [op |-> "dispatch", id |-> id, ret |-> "not_locked"]
                /\ store' = st1
                /\ UNCHANGED gatewayVars
           ELSE IF raises
           THEN /\ qres' = [op |-> "dispatch", id |-> id, ret |-> "raised"]
                /\ store' = mark_failed(st1, id, TransportError)
                /\ locks' = [locks EXCEPT ![id] = @ + 1]
                /\ UNCHANGED sends
           ELSE /\ qres' = [op |-> "dispatch", id |-> id, ret |-> "sent"]
                /\ store' = mark_sent(st1, id, now)
                /\ locks' = [locks EXCEPT ![id] = @ + 1]
                /\ sends' = [sends EXCEPT ![id] = @ + 1]
    /\ UNCHANGED <<clock, workerVars, handlerVars, eventVars>>

\* ---------------------------------------------- the service, a lone caller

\* ORDER BY send_at LIMIT limit over the rows `ids`: every result the query
\* can give (rows with equal send_at come in either order).
OrderBySendAt(st, ids, limit) ==
    LET n == Min(limit, Cardinality(ids))
    IN  {s \in [1..n -> ids] :
            /\ \A i, j \in 1..n : i # j => s[i] # s[j]
            /\ IsSortedBy(st, s)
            /\ \A id \in ids : (\E i \in 1..n : s[i] = id)
                               \/ (\A i \in 1..n : st[s[i]].send_at <= st[id].send_at)}

\* WHERE clause of LIST_SCHEDULED_FOR_SENDER_SQL
ListForSenderWhere(r, normalized_sender_id) ==
    /\ r.status = "SCHEDULED"
    /\ sql_digits(r.from_chat_id) = normalized_sender_id

\* repo.list_scheduled_for_sender(normalized_sender_id, limit)
list_scheduled_for_sender(st, normalized_sender_id, limit) ==
    OrderBySendAt(st,
        {id \in 1..Len(st) : ListForSenderWhere(st[id], normalized_sender_id)},
        limit)

\* service.list_scheduled_messages_for_sender(sender_id, limit): every list
\* it can return.
list_scheduled_messages_for_sender(st, sender_id, limit) ==
    LET normalized_sender == normalize_sender_id(sender_id)
    IN  IF normalized_sender = <<>> THEN {<<>>}
        ELSE list_scheduled_for_sender(st, normalized_sender, limit)

\* Senders of the records the lone caller schedules; <<>> = no from_chat_id.
ApiSenders == {NoSender, Sender1, Sender1Plus, Sender2, SenderNoDigits}

\* Calls of schedule_message: valid and invalid ones, with and without sender.
ScheduleRequests ==
    {r \in RequestsOf(Keys, Payloads, {NoSender, Sender1}, {"p1"}) :
        r.payload.chat_id = "c1"}

\* Valid calls of one sender.
CancelRequests == {r \in ScheduleRequests : r.aware /\ r.from_chat_id = Sender1}

\* Valid calls of several senders.
ListRequests ==
    {r \in RequestsOf(Keys, Payloads, ApiSenders, {"p1"}) :
        r.payload.chat_id = "c1" /\ r.aware}

\* schedule_message(...) run to its end; the call and its outcome are kept.
service_schedule(req) ==
    /\ LET now == clock
           existing == find_by_idempotency_key(store, req.idempotency_key)
           error == ScheduleError(req, now, assistant_mode)
       IN  IF error # ""
           THEN /\ qres' = [op |-> "schedule_message", req |-> req, now |-> now,
                            ret |-> "raised", error |-> error]
                /\ UNCHANGED store
           ELSE IF existing # {}
           THEN /\ qres' = [op |-> "schedule_message", req |-> req, now |-> now,
                            ret |-> "existing", error |-> ""]
                /\ UNCHANGED store
           ELSE /\ Len(store) < MaxRecords
                /\ store' = create(store, NewMessage(req, now))
                /\ qres' = [op |-> "schedule_message", req |-> req, now |-> now,
                            ret |-> "created", error |-> ""]
    /\ UNCHANGED <<clock, gatewayVars, workerVars, handlerVars, eventVars>>

\* cancel_message raising for a CANCELLED record as well.
CancelErrorOnCancelled(st, id) ==
    IF Exists(st, id) /\ st[id].status \in {"SENT", "CANCELLED"}
    THEN "Cannot cancel a sent message" ELSE ""

\* The ValueError cancel_message raises for msg_id, "" when none.
CancelError(st, id) ==
    IF Exists(st, id) /\ st[id].status = "SENT"
    THEN "Cannot cancel a sent message" ELSE ""

\* cancel_message that cancels a SCHEDULED row only.
AfterCancelMessageScheduledOnly(st, id) ==
    IF Exists(st, id) /\ st[id].status = "SCHEDULED" THEN cancel(st, id) ELSE st

\* The table after cancel_message(msg_id).
AfterCancelMessage(st, id) ==
    IF ~Exists(st, id) THEN st
    ELSE IF st[id].status = "SENT" THEN st
    ELSE IF st[id].status = "CANCELLED" THEN st
    ELSE cancel(st, id)

\* cancel_message(msg_id) run to its end.
service_cancel(id) ==
    /\ store' = AfterCancelMessage(store, id)
    /\ qres' = [op |-> "cancel_message", id |-> id,
                was |-> IF Exists(store, id) THEN store[id].status ELSE "missing",
                ret |-> IF CancelError(store, id) # "" THEN "raised" ELSE "returned",
                error |-> CancelError(store, id)]
    /\ UNCHANGED <<clock, gatewayVars, workerVars, handlerVars, eventVars>>

\* list_scheduled_messages_for_sender(sender_id, limit)
service_list_for_sender(sender_id, limit) ==
    /\ \E ret \in list_scheduled_messages_for_sender(store, sender_id, limit) :
          qres' = [op |-> "list_for_sender", sender_id |-> sender_id,
                   limit |-> limit, ret |-> ret]
    /\ UNCHANGED <<store, clock, gatewayVars, workerVars, handlerVars, eventVars>>

\* ---------------------------------------------------- WhatsApp event service

\* Ids the gateway gives to inbound messages.
MessageIds == {"m1", "m2"}

\* Runs of 12 hex digits a text can hold: the prefixes of the ids, and one
\* that no id has.
HexPrefixes == Uuids \cup {"p9"}

\* Times a reply to the "When?" prompt can name ("YYYY-MM-DD HH:MM").
TimeOf == [T1 |-> 1, T2 |-> 2, T9 |-> 86402]

\* What the handler works on: the table, the two config files, the stores.
World ==
    [ store |-> store, common |-> common, tmconf |-> tmconf,
      pending |-> pending, flows |-> flows ]

\* `return accepted, reason` after _send_reply(chat_id, reply, message_id);
\* reply "" = nothing was sent, reason "" = None.
Ret(w, accepted, reason, reply) ==
    [ w |-> w, accepted |-> accepted, reason |-> reason, reply |-> reply ]

\* normalized_text.startswith(word) for a word that is one piece
StartsWith(text, word) == text # <<>> /\ Head(text) = word

\* re.search(r"\b([0-9a-fA-F]{12})\b", text): the first run, "" when none
RECURSIVE extract_id_prefix(_)
extract_id_prefix(text) ==
    IF text = <<>> THEN ""
    ELSE IF Head(text) \in HexPrefixes THEN Head(text)
    ELSE extract_id_prefix(Tail(text))

\* The prefix query without its sender condition.
FindByPrefixWhereAnySender(r, prefix, normalized_sender_id) ==
    r.uuid = prefix

\* WHERE clause of FIND_BY_ID_PREFIX_FOR_SENDER_SQL
FindByPrefixWhere(r, prefix, normalized_sender_id) ==
    /\ r.uuid = prefix
    /\ sql_digits(r.from_chat_id) = normalized_sender_id

\* service.find_by_id_prefix_for_sender: the ids matching (LIMIT 2); the
\* caller raises for more than one and has no match for none.
find_by_id_prefix_for_sender(st, prefix, sender_id) ==
    LET normalized_sender == normalize_sender_id(sender_id)
    IN  IF normalized_sender = <<>> THEN {}
        ELSE {id \in 1..Len(st) : FindByPrefixWhere(st[id], prefix, normalized_sender)}

\* WHERE clause of FIND_BY_CONFIRMATION_FOR_SENDER_SQL
FindByConfirmationWhere(r, confirmation_message_id, normalized_sender_id) ==
    /\ r.confirmation_message_id = confirmation_message_id
    /\ r.status \in {"SCHEDULED", "LOCKED"}
    /\ sql_digits(r.from_chat_id) = normalized_sender_id

\* service.find_scheduled_by_confirmation_message_id_for_sender: ORDER BY
\* created_at DESC LIMIT 1, the row created last; 0 = None.
find_scheduled_by_confirmation_message_id_for_sender(st, confirmation_message_id, sender_id) ==
    LET normalized_sender == normalize_sender_id(sender_id)
        found == {id \in 1..Len(st) :
                    FindByConfirmationWhere(st[id], confirmation_message_id,
                                            normalized_sender)}
    IN  IF normalized_sender = <<>> \/ confirmation_message_id = "" \/ found = {}
        THEN 0
        ELSE CHOOSE id \in found : \A other \in found : other <= id

\* UPDATE ... SET confirmation_message_id = ... WHERE id = ...
set_confirmation_message_id(st, id, confirmation_message_id) ==
    IF confirmation_message_id = "" \/ ~Exists(st, id) THEN st
    ELSE [st EXCEPT ![id] = [@ EXCEPT !.confirmation_message_id = confirmation_message_id]]

\* _resolve_cancel_id: [error, id]; error "" and id 0 = None.
resolve_cancel_id(st, ev) ==
    LET prefix == IF extract_id_prefix(ev.text) # ""
                  THEN extract_id_prefix(ev.text)
                  ELSE extract_id_prefix(ev.quoted_text)
        matches == find_by_id_prefix_for_sender(st, prefix, ev.sender_id)
    IN  IF prefix # ""
        THEN IF Cardinality(matches) > 1
             THEN [error |-> "cancel id is ambiguous; please paste the full ID", id |-> 0]
             ELSE IF matches = {}
             THEN [error |-> "could not find one of your scheduled messages with that ID",
                   id |-> 0]
             ELSE [error |-> "", id |-> CHOOSE id \in matches : TRUE]
        ELSE [error |-> "",
              id |-> find_scheduled_by_confirmation_message_id_for_sender(
                         st, ev.quoted_message_id, ev.sender_id)]

\* The `cancel` command.
handle_cancel(w, ev) ==
    LET resolved == resolve_cancel_id(w.store, ev)
    IN  IF resolved.error # ""
        THEN Ret(w, FALSE, resolved.error, "error")
        ELSE IF resolved.id = 0
        THEN Ret(w, FALSE, "Invalid_cancel_id", "invalid cancel id")
        ELSE IF CancelError(w.store, resolved.id) # ""
        THEN Ret(w, FALSE, CancelError(w.store, resolved.id), "error")
        ELSE Ret([w EXCEPT !.store = AfterCancelMessage(w.store, resolved.id)],
                 TRUE, "", "Cancelled")

\* _handle_whoami; env.setup_code is the code admin_setup_code() returns.
handle_whoami(w, ev, env) ==
    LET text == Strip(ev.text)
        code == Strip(SplitRest(text))
        w1 == [w EXCEPT !.tmconf = after_admin_setup_code(@, env.setup_code)]
    IN  IF w.common.admin_sender_id # <<>>
        THEN Ret(w, TRUE, "", "Admin already set.")
        ELSE IF code # env.setup_code
        THEN Ret(w1, FALSE, "invalid_setup_code", "Invalid setup code.")
        ELSE Ret([w1 EXCEPT !.common = common_set_admin_sender_id(@, ev.sender_id),
                            !.tmconf = clear_admin_setup_code(@)],
                 TRUE, "", "Admin set")

\* _handle_assistant_auth; env.auth_code is the code the generator draws.
handle_assistant_auth(w, ev, env, now) ==
    LET text == Strip(ev.text)
        normalized == normalize_sender_id(ev.sender_id)
        entry == pending_get(w.pending, normalized, now)
        w1 == [w EXCEPT !.pending = pending_after_get(@, normalized, now)]
        code == Strip(SplitRest(text))
    IN  IF ev.is_group
        THEN Ret(w, FALSE, "auth_in_group", "Please DM me to authenticate.")
        ELSE IF is_sender_approved(w.common, ev.sender_id)
        THEN Ret(w, TRUE, "", "Already approved.")
        ELSE IF SplitRest(text) = <<>>
        THEN Ret([w EXCEPT !.pending = pending_set(@, normalized, env.auth_code, now)],
                 TRUE, "", "Auth code generated.")
        ELSE IF entry = NoEntry
        THEN Ret(w1, FALSE, "auth_not_requested", "No pending auth request.")
        ELSE IF code # entry.code
        THEN Ret(w1, FALSE, "invalid_auth_code", "Invalid auth code.")
        ELSE Ret([w1 EXCEPT !.common = add_approved_number(@, normalized),
                            !.pending = pending_clear(@, normalized)],
                 TRUE, "", "Approved")

\* A notification that goes out whether an admin is set or not.
notify_admin_unconditionally(c, requester_sender_id, code) ==
    << [ to |-> c.admin_sender_id, code |-> code, sender |-> requester_sender_id,
         normalized |-> normalize_sender_id(requester_sender_id) ] >>

\* AuthMicroservice._notify_admin_auth_request: the messages it sends, each
\* with the chat it goes to and the code, sender id and normalized id it
\* carries.
notify_admin_auth_request(c, requester_sender_id, code) ==
    IF c.admin_sender_id = <<>>
    THEN <<>>
    ELSE IF /\ normalize_sender_id(requester_sender_id) # <<>>
            /\ normalize_sender_id(requester_sender_id) = normalize_sender_id(c.admin_sender_id)
    THEN <<>>
    ELSE << [ to |-> c.admin_sender_id, code |-> code, sender |-> requester_sender_id,
              normalized |-> normalize_sender_id(requester_sender_id) ] >>

\* What a handler of the auth service returns, with the admin messages sent.
Notified(r, notify) ==
    [ w |-> r.w, accepted |-> r.accepted, reason |-> r.reason, reply |-> r.reply,
      notify |-> notify ]

\* AuthMicroservice.handle_assistant_auth
microservice_handle_assistant_auth(w, ev, env, now) ==
    LET text == Strip(ev.text)
        normalized == normalize_sender_id(ev.sender_id)
        entry == pending_get(w.pending, normalized, now)
        w1 == [w EXCEPT !.pending = pending_after_get(@, normalized, now)]
        code == Strip(SplitRest(text))
    IN  IF ev.is_group
        THEN Notified(Ret(w, FALSE, "auth_in_group", "Please DM me to authenticate."), <<>>)
        ELSE IF is_sender_approved(w.common, ev.sender_id)
        THEN Notified(Ret(w, TRUE, "", "Already approved."), <<>>)
        ELSE IF SplitRest(text) = <<>>
        THEN Notified(Ret([w EXCEPT !.pending = pending_set(@, normalized, env.auth_code, now)],
                          TRUE, "", "Auth code generated."),
                      notify_admin_auth_request(w.common, ev.sender_id, env.auth_code))
        ELSE IF entry = NoEntry
        THEN Notified(Ret(w1, FALSE, "auth_not_requested", "No pending auth request."), <<>>)
        ELSE IF code # entry.code
        THEN Notified(Ret(w1, FALSE, "invalid_auth_code", "Invalid auth code."), <<>>)
        ELSE Notified(Ret([w1 EXCEPT !.common = add_approved_number(@, normalized),
                                     !.pending = pending_clear(@, normalized)],
                          TRUE, "", "Approved"), <<>>)

\* AuthEventService.handle_inbound_event: !whoami, !auth, and nothing else.
\* The auth service keeps its setup code in a file of its own, which the
\* record tmconf stands for here.
auth_handle_event(w, ev, env, now) ==
    IF StartsWith(Lower(Strip(ev.text)), "!whoami")
    THEN Notified(handle_whoami(w, ev, env), <<>>)
    ELSE IF StartsWith(Lower(Strip(ev.text)), "!auth")
    THEN microservice_handle_assistant_auth(w, ev, env, now)
    ELSE Notified(Ret(w, FALSE, "auth_command_only", ""), <<>>)

SetupText == <<"!setup", " ", "timed", " ", "messages">>
StopText == <<"!stop", " ", "timed", " ", "messages">>

\* A setup command that takes any id of the admin's number for the admin.
handle_setup_command_any_id(w, ev, command) ==
    IF w.common.admin_sender_id = <<>>
    THEN Ret(w, FALSE, "admin_not_configured", "Admin sender ID not configured.")
    ELSE IF normalize_sender_id(ev.sender_id) # normalize_sender_id(w.common.admin_sender_id)
    THEN Ret(w, FALSE, "unauthorized_admin", "Unauthorized.")
    ELSE IF command = SetupText
    THEN Ret([w EXCEPT !.tmconf = set_scheduling_group(@, ev.chat_id)],
             TRUE, "", "Timed messages enabled for this group.")
    ELSE Ret([w EXCEPT !.tmconf = clear_scheduling_group(@)],
             TRUE, "", "Timed messages disabled for this group.")

\* _handle_setup_command
handle_setup_command(w, ev, command) ==
    IF w.common.admin_sender_id = <<>>
    THEN Ret(w, FALSE, "admin_not_configured", "Admin sender ID not configured.")
    ELSE IF ev.sender_id # w.common.admin_sender_id
    THEN Ret(w, FALSE, "unauthorized_admin", "Unauthorized.")
    ELSE IF command = SetupText
    THEN Ret([w EXCEPT !.tmconf = set_scheduling_group(@, ev.chat_id)],
             TRUE, "", "Timed messages enabled for this group.")
    ELSE Ret([w EXCEPT !.tmconf = clear_scheduling_group(@)],
             TRUE, "", "Timed messages disabled for this group.")

Range(f) == {f[x] : x \in DOMAIN f}

\* _normalize_contact_phone for a list of numbers (one str = a list of one,
\* None = the empty list): [phone, issue].
normalize_contact_phone(contact_phone) ==
    LET normalized == {DigitsOf(v) : v \in {x \in Range(contact_phone) :
                                              Len(DigitsOf(x)) >= 8}}
    IN  IF Cardinality(normalized) > 1
        THEN [phone |-> <<>>, issue |-> "multiple_numbers"]
        ELSE IF Cardinality(normalized) = 1
        THEN [phone |-> CHOOSE d \in normalized : TRUE, issue |-> ""]
        ELSE [phone |-> <<>>, issue |-> ""]

\* _normalize_recipient: the chat id, <<>> = None.
normalize_recipient(value, contact_phone) ==
    LET v == Strip(value)
    IN  IF v # <<>> /\ \E i \in 1..Len(v) : v[i] = "@" THEN v
        ELSE IF v # <<>> /\ Len(DigitsOf(v)) >= 8
        THEN DigitsOf(v) \o <<"@", "s.whatsapp.net">>
        ELSE IF contact_phone # <<>> /\ Len(DigitsOf(contact_phone)) >= 8
        THEN DigitsOf(contact_phone) \o <<"@", "s.whatsapp.net">>
        ELSE <<>>

\* _parse_datetime for a text in the "YYYY-MM-DD HH:MM" format, with
\* DEFAULT_TIMEZONE set: the time it names, NULL = ValueError.
parse_datetime(value) ==
    LET v == Strip(value)
    IN  IF Len(v) = 1 /\ v[1] \in DOMAIN TimeOf THEN TimeOf[v[1]] ELSE NULL

\* ---- parse_datetime for a bare HH:MM
\*
\* Instants are seconds on the UTC time line; a wall time is the seconds a
\* local clock shows, counted the same way (instant + UTC offset). A zone
\* has an offset `before` the instant `at` and an offset `after` from it on
\* (UTC: both 0).
DAY_SECONDS == 86400
HOUR_SECONDS == 3600
MINUTE_SECONDS == 60

\* tz.utcoffset of an instant, and now_utc.astimezone(tz) as a wall time.
OffsetAt(zone, t) == IF t < zone.at THEN zone.before ELSE zone.after
WallOf(zone, t) == t + OffsetAt(zone, t)

Max(a, b) == IF a > b THEN a ELSE b

\* The instant a wall time with fold = 0 stands for (PEP 495): a wall time
\* the clock shows twice is its first showing, one it never shows is taken
\* with the offset before the change.
InstantOf(zone, wall) ==
    IF wall < zone.at + Max(zone.before, zone.after)
    THEN wall - zone.before
    ELSE wall - zone.after

\* datetime.strptime(value, "%H:%M") on a text that matched \d{1,2}:\d{2}
ValidTime(hh, mm) == hh \in 0..23 /\ mm \in 0..59

\* datetime.combine(now.date(), time_part, tzinfo=tz), a day later when
\* `send_at <= now` (both carry the same tzinfo: their wall times are
\* compared).
send_wall(now_wall, hh, mm) ==
    LET today == (now_wall - (now_wall % DAY_SECONDS)) + hh * HOUR_SECONDS + mm * MINUTE_SECONDS
    IN  IF today <= now_wall THEN today + DAY_SECONDS ELSE today

\* parse_datetime(value, tz_name, now_utc) for value = HH:MM: the instant
\* returned, NULL = ValueError("invalid time (use HH:MM)").
parse_hhmm(hh, mm, zone, now_utc) ==
    IF ~ValidTime(hh, mm) THEN NULL
    ELSE InstantOf(zone, send_wall(WallOf(zone, now_utc), hh, mm))

\* WHATSAPP_ASSISTANT_MAX_SCHEDULE_HOURS, default 24, in seconds
ASSISTANT_MAX_SCHEDULE_SECONDS == 86400

\* int(value) for a stripped text: an optional sign and decimal digits; NULL
\* = ValueError. (Only results above NULL are told apart from it: a negative
\* number is returned as 0, which the caller treats alike.)
DigitPieces == <<"0", "1", "2", "3", "4", "5", "6", "7", "8", "9">>
DigitValue(d) == (CHOOSE i \in 1..Len(DigitPieces) : DigitPieces[i] = d) - 1
RECURSIVE DecimalValue(_)
DecimalValue(s) ==
    IF s = <<>> THEN 0 ELSE 10 * DecimalValue(SubSeq(s, 1, Len(s) - 1)) + DigitValue(s[Len(s)])
ParseInt(value) ==
    LET v == Strip(value)
        signed == v # <<>> /\ Head(v) \in {"+", "-"}
        digits == IF signed THEN Tail(v) ELSE v
    IN  IF digits = <<>> \/ \E i \in 1..Len(digits) : ~IsDigit(digits[i])
        THEN NULL
        ELSE IF signed /\ Head(v) = "-" THEN 0
        ELSE DecimalValue(digits)

\* The hours the window has by default.
DEFAULT_SCHEDULE_HOURS == 24

\* os.getenv("WHATSAPP_ASSISTANT_MAX_SCHEDULE_HOURS", "24").strip(); the
\* variable is a record: set or not, and its value.
getenv_schedule_hours(setting) ==
    Strip(IF setting.set THEN setting.value ELSE <<"2", "4">>)

\* _assistant_schedule_window, in seconds
assistant_schedule_window(setting) ==
    LET hours == ParseInt(getenv_schedule_hours(setting))
    IN  IF hours = NULL \/ hours <= 0
        THEN DEFAULT_SCHEDULE_HOURS * HOUR_SECONDS
        ELSE hours * HOUR_SECONDS

\* A window check that turns down a time exactly at the limit.
validate_window_exclusive(send_at, now, assistant, setting) ==
    IF ~assistant THEN ""
    ELSE IF send_at - now < assistant_schedule_window(setting) THEN ""
    ELSE "Free version limit"

\* validate_assistant_schedule_window under a given setting of
\* WHATSAPP_ASSISTANT_MAX_SCHEDULE_HOURS: the ValueError, "" when none.
validate_window(send_at, now, assistant, setting) ==
    IF ~assistant THEN ""
    ELSE IF send_at - now <= assistant_schedule_window(setting) THEN ""
    ELSE "Free version limit"

\* A window check that lets every time through.
validate_no_schedule_window(send_at, now, assistant) == ""

\* validate_assistant_schedule_window: the ValueError, "" when none.
validate_assistant_schedule_window(send_at, now, assistant) ==
    IF ~assistant THEN ""
    ELSE IF send_at - now <= ASSISTANT_MAX_SCHEDULE_SECONDS THEN ""
    ELSE "Free version limit"

\* _start_flow
start_flow(w, ev) ==
    [w EXCEPT !.flows = flow_set(@, <<ev.chat_id, ev.sender_id>>,
        [ step |-> "to", request_id |-> ev.message_id, sender_id |-> ev.sender_id,
          updated_at |-> ev.timestamp, to_chat_id |-> <<>>, send_at |-> NULL ])]

\* A `text` step that gives up when the reply could not be sent: the record
\* is there, the flow is left as it was.
flow_schedule_reply_raises(w, key, flow, ev, env, now) ==
    LET req == [ idempotency_key |-> flow.request_id,
                 payload |-> [chat_id |-> flow.to_chat_id, text |-> Strip(ev.text)],
                 from_chat_id |-> flow.sender_id,
                 send_at |-> flow.send_at,
                 aware |-> TRUE,
                 uuid |-> env.uuid ]
        existing == find_by_idempotency_key(w.store, req.idempotency_key)
        st1 == IF existing # {} THEN w.store ELSE create(w.store, NewMessage(req, now))
        scheduled == IF existing # {} THEN CHOOSE id \in existing : TRUE ELSE Len(st1)
    IN  IF env.outbound = ""
        THEN Ret([w EXCEPT !.store = st1], FALSE, "transport_error", "")
        ELSE Ret([w EXCEPT !.store = set_confirmation_message_id(st1, scheduled, env.outbound),
                           !.flows = flow_clear(@, key)],
                 TRUE, "", "Scheduled")

\* The `text` step once schedule_message returned: the reply is sent, its id
\* kept on the record, the flow cleared. env.uuid is the id uuid4() draws,
\* env.outbound the id of the reply ("" = the transport failed).
flow_schedule(w, key, flow, ev, env, now) ==
    LET req == [ idempotency_key |-> flow.request_id,
                 payload |-> [chat_id |-> flow.to_chat_id, text |-> Strip(ev.text)],
                 from_chat_id |-> flow.sender_id,
                 send_at |-> flow.send_at,
                 aware |-> TRUE,
                 uuid |-> env.uuid ]
        existing == find_by_idempotency_key(w.store, req.idempotency_key)
        st1 == IF existing # {} THEN w.store ELSE create(w.store, NewMessage(req, now))
        scheduled == IF existing # {} THEN CHOOSE id \in existing : TRUE ELSE Len(st1)
    IN  Ret([w EXCEPT !.store = set_confirmation_message_id(st1, scheduled, env.outbound),
                      !.flows = flow_clear(@, key)],
            TRUE, "", "Scheduled")

\* _handle_flow_step. The flow is the dict held by the store, so what the
\* step writes into it (updated_at first of all) stays written.
handle_flow_step(w, flow, ev, env, now, assistant) ==
    LET key == <<ev.chat_id, flow.sender_id>>
        text == Strip(ev.text)
        touched == [flow EXCEPT !.updated_at = ev.timestamp]
        w1 == [w EXCEPT !.flows = flow_set(@, <<ev.chat_id, ev.sender_id>>, touched)]
        Keep(f) == [w EXCEPT !.flows = flow_set(@, <<ev.chat_id, ev.sender_id>>, f)]
        contact == normalize_contact_phone(ev.contact_phone)
        to_chat_id == normalize_recipient(text, contact.phone)
        send_at == parse_datetime(text)
        window == validate_assistant_schedule_window(send_at, now, assistant)
        error == ScheduleError([send_at |-> flow.send_at, aware |-> TRUE,
                                from_chat_id |-> flow.sender_id], now, assistant)
    IN  IF Lower(text) = <<"cancel">>
        THEN Ret([w1 EXCEPT !.flows = flow_clear(@, key)], TRUE, "", "Canceled scheduling.")
        ELSE IF flow.step = "to"
        THEN IF contact.issue = "multiple_numbers"
             THEN Ret(w1, TRUE, "multiple_recipient_numbers", "Can't send to multiple numbers.")
             ELSE IF to_chat_id = <<>>
             THEN Ret(w1, TRUE, "", "Please reply with a phone number")
             ELSE Ret(Keep([touched EXCEPT !.to_chat_id = to_chat_id, !.step = "when"]),
                      TRUE, "", "When?")
        ELSE IF flow.step = "when"
        THEN IF send_at = NULL
             THEN Ret(w1, TRUE, "", "Invalid time.")
             ELSE IF send_at <= now
             THEN Ret(w1, TRUE, "", "Time must be in the future.")
             ELSE IF window # ""
             THEN Ret(w1, TRUE, window, "error")
             ELSE Ret(Keep([touched EXCEPT !.send_at = send_at, !.step = "text"]),
                      TRUE, "", "What should I say?")
        ELSE IF flow.step = "text"
        THEN IF text = <<>>
             THEN Ret(w1, TRUE, "", "Message text can't be empty.")
             ELSE IF error = "send_at must be in the future"
             THEN Ret(Keep([touched EXCEPT !.step = "when"]), TRUE, error,
                      "Time must be in the future.")
             ELSE IF error # ""
             THEN Ret(w1, TRUE, error, "error")
             ELSE flow_schedule(w1, key, touched, ev, env, now)
        ELSE Ret(w1, FALSE, "not_actionable", "")

\* The command word looked at before the active flow.
handle_command_word_first(w, ev, env, now, assistant) ==
    LET text == Strip(ev.text)
        key == <<ev.chat_id, ev.sender_id>>
        flow == flow_get(w.flows, key, ev.timestamp)
        w1 == [w EXCEPT !.flows = flow_after_get(@, key, ev.timestamp)]
        command == Lower(SplitHead(text))
    IN  IF command = <<"add">>
        THEN Ret(start_flow(w1, ev), TRUE, "", "To Who?")
        ELSE IF command = <<"instructions">>
        THEN Ret(w1, TRUE, "", "Options")
        ELSE IF command = <<"list">>
        THEN Ret(w1, TRUE, "", "Scheduled messages")
        ELSE IF flow # NoFlow
        THEN handle_flow_step(w1, flow, ev, env, now, assistant)
        ELSE IF text = <<>>
        THEN Ret(w1, FALSE, "no_text", "")
        ELSE IF command = <<"cancel">>
        THEN handle_cancel(w1, ev)
        ELSE Ret(w1, FALSE, "not_actionable", "")

\* handle_inbound_event past the commands and the gates: the active flow,
\* then the command word.
handle_command(w, ev, env, now, assistant) ==
    LET text == Strip(ev.text)
        key == <<ev.chat_id, ev.sender_id>>
        flow == flow_get(w.flows, key, ev.timestamp)
        w1 == [w EXCEPT !.flows = flow_after_get(@, key, ev.timestamp)]
        command == Lower(SplitHead(text))
    IN  IF flow # NoFlow
        THEN handle_flow_step(w1, flow, ev, env, now, assistant)
        ELSE IF text = <<>>
        THEN Ret(w1, FALSE, "no_text", "")
        ELSE IF command = <<"add">>
        THEN Ret(start_flow(w1, ev), TRUE, "", "To Who?")
        ELSE IF command = <<"instructions">>
        THEN Ret(w1, TRUE, "", "Options")
        ELSE IF command = <<"cancel">>
        THEN handle_cancel(w1, ev)
        ELSE IF command = <<"list">>
        THEN Ret(w1, TRUE, "", "Scheduled messages")
        ELSE Ret(w1, FALSE, "not_actionable", "")

\* The gates with the group gate asking only whether a group is configured.
GateAnyGroup(w, ev, assistant) ==
    IF assistant /\ ~is_sender_approved(w.common, ev.sender_id)
    THEN "unauthorized_sender"
    ELSE IF ~assistant /\ w.tmconf.group_id = <<>>
    THEN "unauthorized_group"
    ELSE ""

\* The gate that lets every sender and every chat through.
GateOpen(w, ev, assistant) == ""

\* The two gates of handle_inbound_event: the reason an event that is no
\* command is turned away for, "" when it passes.
Gate(w, ev, assistant) ==
    IF assistant /\ ~is_sender_approved(w.common, ev.sender_id)
    THEN "unauthorized_sender"
    ELSE IF ~assistant /\ (w.tmconf.group_id = <<>> \/ ev.chat_id # w.tmconf.group_id)
    THEN "unauthorized_group"
    ELSE ""

\* handle_inbound_event: what it returns, replies and leaves behind.
handle_event(w, ev, env, now, assistant) ==
    LET text == Strip(ev.text)
    IN  IF StartsWith(text, "!whoami")
        THEN handle_whoami(w, ev, env)
        ELSE IF StartsWith(text, "!auth")
        THEN handle_assistant_auth(w, ev, env, now)
        ELSE IF text \in {SetupText, StopText}
        THEN IF assistant
             THEN Ret(w, TRUE, "", "Setup commands are not needed in assistant mode.")
             ELSE handle_setup_command(w, ev, text)
        ELSE IF Gate(w, ev, assistant) = "unauthorized_sender"
        THEN Ret(w, FALSE, "unauthorized_sender",
                 IF ev.is_group THEN "" ELSE "Unauthorized.")
        ELSE IF Gate(w, ev, assistant) = "unauthorized_group"
        THEN Ret(w, FALSE, "unauthorized_group", "")
        ELSE handle_command(w, ev, env, now, assistant)

\* An inbound event is handled from start to end; its timestamp is the time
\* it arrives at. eres keeps the id of the reply and the code the generator
\* drew (the handler logs it when it stores it).
handle_inbound_event(ev, env) ==
    /\ ev.timestamp = clock
    /\ env.setup_code \in admin_setup_code(tmconf)
    /\ \E r \in {handle_event(World, ev, env, clock, assistant_mode)} :
           /\ Len(r.w.store) <= MaxRecords
           /\ store' = r.w.store
           /\ common' = r.w.common
           /\ tmconf' = r.w.tmconf
           /\ pending' = r.w.pending
           /\ flows' = r.w.flows
           /\ eres' = [ op |-> "event", ev |-> ev, accepted |-> r.accepted,
                        reason |-> r.reason, reply |-> r.reply,
                        before |-> World, outbound |-> env.outbound,
                        auth_code |-> env.auth_code ]
    /\ UNCHANGED <<clock, gatewayVars, workerVars, handlerVars, qres, assistant_mode>>

\* ------------------------------------------------------------ specification

\* POST /whatsapp/events of the auth service: one event handled from end to
\* end, at the time the clock shows.
auth_handle_inbound_event(ev, env) ==
    /\ ev.timestamp = clock
    /\ env.setup_code \in admin_setup_code(tmconf)
    /\ \E r \in {auth_handle_event(World, ev, env, clock)} :
           /\ common' = r.w.common
           /\ tmconf' = r.w.tmconf
           /\ pending' = r.w.pending
           /\ eres' = [ op |-> "auth_event", ev |-> ev, accepted |-> r.accepted,
                        reason |-> r.reason, reply |-> r.reply,
                        before |-> World, notify |-> r.notify ]
    /\ UNCHANGED <<store, clock, gatewayVars, workerVars, handlerVars, qres,
                   assistant_mode, flows>>

\* One message, scheduled by one caller.
DeliveryRequests ==
    {r \in Requests : r.idempotency_key = "k1" /\ r.payload.chat_id = "c1"}

RepoRequests == {r \in Requests : r.payload.chat_id = "c1" /\ r.aware}

\* The repository and the dispatch step under any sequence of calls.
NextRepo ==
    \/ TickSecond
    \/ TickLease
    \/ \E req \in RepoRequests : schedule_call(req)
    \/ \E id \in CallIds : repo_lock(id)
    \/ \E limit \in 1..MaxLimit : repo_list_upcoming(limit)
    \/ \E id \in CallIds : repo_cancel(id)
    \/ \E id \in CallIds : repo_update_metadata(id)
    \/ \E id \in CallIds, raises \in BOOLEAN : send_message_if_due(id, raises)

SpecRepo == Init /\ [][NextRepo]_vars

\* Concurrent callers of schedule_message and cancel_message.
NextService ==
    \/ TickSecond
    \/ \E h \in Handlers, req \in Requests : schedule_message(h, req)
    \/ \E h \in Handlers : schedule_create(h)
    \/ \E h \in Handlers, id \in CallIds : cancel_message(h, id)
    \/ \E h \in Handlers : cancel_commit(h)
    \/ \E h \in Handlers : handler_return(h)

SpecService == Init /\ [][NextService]_vars

\* The process may run in either mode.
InitAnyMode ==
    /\ store = <<>>
    /\ clock = 0
    /\ sends = [id \in AllIds |-> 0]
    /\ locks = [id \in AllIds |-> 0]
    /\ wpc = [w \in Workers |-> "idle"]
    /\ wbatch = [w \in Workers |-> <<>>]
    /\ wmsg = [w \in Workers |-> 0]
    /\ wnow = [w \in Workers |-> NULL]
    /\ wstatus = [w \in Workers |-> ""]
    /\ hpc = [h \in Handlers |-> "idle"]
    /\ harg = [h \in Handlers |-> NoArg]
    /\ qres = NoQuery
    /\ assistant_mode \in BOOLEAN
    /\ common = [admin_sender_id |-> NoSender, approved_numbers |-> {}]
    /\ tmconf = [group_id |-> <<>>, admin_setup_code |-> <<"s1">>]
    /\ pending = EmptyDict
    /\ flows = EmptyDict
    /\ eres = NoEvent

\* schedule_message under any sequence of calls by a lone caller.
NextSchedule ==
    \/ TickSecond
    \/ \E req \in ScheduleRequests : service_schedule(req)

SpecSchedule == InitAnyMode /\ [][NextSchedule]_vars

\* cancel_message by a lone caller, on records in every status.
NextCancel ==
    \/ TickSecond
    \/ \E req \in CancelRequests : service_schedule(req)
    \/ \E id \in CallIds : service_cancel(id)
    \/ \E id \in CallIds : repo_lock(id)
    \/ \E id \in CallIds, raises \in BOOLEAN : send_message_if_due(id, raises)

SpecCancel == Init /\ [][NextCancel]_vars

\* Listing by a lone caller, over the records of several senders.
NextList ==
    \/ \E req \in ListRequests : service_schedule(req)
    \/ \E id \in CallIds : service_cancel(id)
    \/ \E s \in ApiSenders, limit \in 1..MaxLimit : service_list_for_sender(s, limit)

SpecList == Init /\ [][NextList]_vars

\* An inbound event of the gateway, stamped with the time it arrives at.
EventsOf(ids, senders, chats, texts, quoted_texts, quoted_ids, contacts, groups) ==
    [ message_id : ids, chat_id : chats, sender_id : senders,
      text : texts, quoted_text : quoted_texts, quoted_message_id : quoted_ids,
      contact_phone : contacts, timestamp : {clock}, is_group : groups ]

\* What the environment draws while an event is handled.
EnvsOf(setup_codes, auth_codes, uuids, outbound) ==
    [ setup_code : setup_codes, auth_code : auth_codes, uuid : uuids,
      outbound : outbound ]

Recipient == <<"r", "@", "s">>
Hello == <<"hello">>

\* A record as the `text` step of a flow leaves it, and as the worker and
\* cancel_message leave it later on.
FlowRow(key, sender, uuid, confirmation, status) ==
    [ uuid |-> uuid,
      chat_id |-> Recipient,
      from_chat_id |-> sender,
      confirmation_message_id |-> confirmation,
      text |-> Hello,
      send_at |-> 1,
      status |-> status,
      locked_at |-> IF status \in {"LOCKED", "SENT", "FAILED"} THEN 1 ELSE NULL,
      sent_at |-> IF status = "SENT" THEN 1 ELSE NULL,
      attempt_count |-> IF status = "FAILED" THEN 1 ELSE 0,
      last_error |-> IF status = "FAILED" THEN TransportError ELSE "",
      idempotency_key |-> key ]

\* The "add" messages the records of such a table were scheduled from, in
\* the order they came.
AddMessages == <<"m1", "m2">>

\* Tables of such records, one for each of the first "add" messages.
FlowTables(senders, uuids, confirmations, statuses) ==
    UNION { { t \in [1..n -> UNION {{FlowRow(k, s, u, c, st) : k \in Range(AddMessages)} :
                                      s \in senders, u \in uuids,
                                      c \in confirmations, st \in statuses}] :
                \A i \in 1..n : t[i].idempotency_key = AddMessages[i] } :
            n \in 0..Len(AddMessages) }

\* The senders of `cancel` events, and the from_chat_id their records carry.
CancelSenders == {Sender1, Sender2}
CancelOwners == {Sender1Plus, Sender2}

\* `cancel` events: with a prefix of an id or of none, in the text or in the
\* quoted text, and with or without a quoted message.
CancelEvents ==
    EventsOf({"m1"}, CancelSenders, {Group1},
             {<<"cancel">>, <<"cancel", " ", "p1">>, <<"cancel", " ", "p9">>},
             {<<>>, <<"ID", ":", " ", "p2">>}, {"", "o1"}, {<<>>}, {TRUE})

NoEnv == [setup_code |-> <<"s1">>, auth_code |-> <<"a1">>, uuid |-> "p1", outbound |-> ""]

\* The service after it ran for a while: an admin and a group are set, the
\* senders are approved, the table holds records of several senders.
InitCancelEvents ==
    /\ store \in FlowTables(CancelOwners, Uuids, {"", "o1"}, Statuses)
    /\ clock = 2
    /\ sends = [id \in AllIds |-> 0]
    /\ locks = [id \in AllIds |-> 0]
    /\ wpc = [w \in Workers |-> "idle"]
    /\ wbatch = [w \in Workers |-> <<>>]
    /\ wmsg = [w \in Workers |-> 0]
    /\ wnow = [w \in Workers |-> NULL]
    /\ wstatus = [w \in Workers |-> ""]
    /\ hpc = [h \in Handlers |-> "idle"]
    /\ harg = [h \in Handlers |-> NoArg]
    /\ qres = NoQuery
    /\ assistant_mode = FALSE
    /\ common = [admin_sender_id |-> Sender1,
                 approved_numbers |-> {normalize_sender_id(x) : x \in CancelSenders}]
    /\ tmconf = [group_id |-> Group1, admin_setup_code |-> <<>>]
    /\ pending = EmptyDict
    /\ flows = EmptyDict
    /\ eres = NoEvent

\* `cancel` events over every such table.
NextCancelEvents ==
    \E ev \in CancelEvents : handle_inbound_event(ev, NoEnv)

SpecCancelEvents == InitCancelEvents /\ [][NextCancelEvents]_vars

\* A flow of `sender` in `chat`, started by message m1 at time 0 and taken
\* to `step`.
FlowAt(chat, sender, step) ==
    DictSet(EmptyDict, <<chat, sender>>,
        [ step |-> step, request_id |-> "m1", sender_id |-> sender,
          updated_at |-> 0,
          to_chat_id |-> IF step \in {"when", "text"} THEN Recipient ELSE <<>>,
          send_at |-> IF step = "text" THEN 1 ELSE NULL ])

\* No flow, or one flow of `sender` in one of `chats` at any step.
FlowsOf(chats, sender) ==
    {EmptyDict} \cup {FlowAt(c, sender, step) : c \in chats, step \in {"to", "when", "text"}}

\* Events of the admin Sender1 and of Sender2: commands, other texts and
\* none, in a group and in a direct chat, quoting a confirmation message.
GateEvents ==
    EventsOf({"m2"}, {Sender1, Sender2}, {Group1, Sender2},
             { <<"add">>, <<"cancel">>, <<"cancel", " ", "p1">>, <<"list">>,
               Hello, <<>>, <<"!auth">>, SetupText },
             {<<>>}, {"o1"}, {<<>>}, BOOLEAN)

\* Assistant mode with Sender1 as admin; Sender2 was approved and, after
\* remove_approved_number, no longer is, with records and a flow or without.
InitGate ==
    /\ store \in FlowTables({Sender2}, {"p1"}, {"o1"}, {"SCHEDULED", "CANCELLED"})
    /\ clock = 0
    /\ sends = [id \in AllIds |-> 0]
    /\ locks = [id \in AllIds |-> 0]
    /\ wpc = [w \in Workers |-> "idle"]
    /\ wbatch = [w \in Workers |-> <<>>]
    /\ wmsg = [w \in Workers |-> 0]
    /\ wnow = [w \in Workers |-> NULL]
    /\ wstatus = [w \in Workers |-> ""]
    /\ hpc = [h \in Handlers |-> "idle"]
    /\ harg = [h \in Handlers |-> NoArg]
    /\ qres = NoQuery
    /\ assistant_mode = TRUE
    /\ common = [admin_sender_id |-> Sender1, approved_numbers |-> {<<"1">>}]
    /\ tmconf = [group_id |-> <<>>, admin_setup_code |-> <<>>]
    /\ pending = EmptyDict
    /\ flows \in FlowsOf({Group1, Sender2}, Sender2)
    /\ eres = NoEvent

NextGate ==
    \E ev \in GateEvents : handle_inbound_event(ev, NoEnv)

SpecGate == InitGate /\ [][NextGate]_vars

\* Events of the admin Sender1 in two groups: commands, other texts and none.
GroupEvents ==
    EventsOf({"m2"}, {Sender1}, {Group1, Group2},
             { <<"add">>, <<"cancel">>, <<"cancel", " ", "p1">>, <<"list">>,
               Hello, <<>>, SetupText, StopText },
             {<<>>}, {"o1"}, {<<>>}, {TRUE})

\* Not in assistant mode, Sender1 is admin; no group is configured or Group1
\* is, and records and a flow are left from a group configured earlier.
InitGroup ==
    /\ store \in FlowTables({Sender1}, {"p1"}, {"o1"}, {"SCHEDULED", "CANCELLED"})
    /\ clock = 0
    /\ sends = [id \in AllIds |-> 0]
    /\ locks = [id \in AllIds |-> 0]
    /\ wpc = [w \in Workers |-> "idle"]
    /\ wbatch = [w \in Workers |-> <<>>]
    /\ wmsg = [w \in Workers |-> 0]
    /\ wnow = [w \in Workers |-> NULL]
    /\ wstatus = [w \in Workers |-> ""]
    /\ hpc = [h \in Handlers |-> "idle"]
    /\ harg = [h \in Handlers |-> NoArg]
    /\ qres = NoQuery
    /\ assistant_mode = FALSE
    /\ common = [admin_sender_id |-> Sender1, approved_numbers |-> {<<"1">>}]
    /\ tmconf \in [group_id : {<<>>, Group1}, admin_setup_code : {<<>>}]
    /\ pending = EmptyDict
    /\ flows \in FlowsOf({Group1, Group2}, Sender1)
    /\ eres = NoEvent

NextGroup ==
    \E ev \in GroupEvents : handle_inbound_event(ev, NoEnv)

SpecGroup == InitGroup /\ [][NextGroup]_vars

\* The times around the expiry of a pending auth code.
AuthTimes == {p * AUTH_TTL_SECONDS + f : p \in 0..MaxPeriods, f \in 0..1}

TickAuth(d) ==
    /\ clock + d \in AuthTimes
    /\ clock' = clock + d
    /\ UNCHANGED <<store, gatewayVars, workerVars, handlerVars, qres, eventVars>>

\* !auth with and without a code, from two ids of one number and from
\* another number, in a direct chat and in a group.
AuthEvents ==
    EventsOf({"m1"}, {Sender1, Sender1Plus, Sender2}, {Group1},
             { <<"!auth">>, <<"!auth", " ", "a1">>, <<"!auth", " ", "a2">> },
             {<<>>}, {""}, {<<>>}, BOOLEAN)

AuthEnvs == EnvsOf({<<"s1">>}, AuthCodes, {"p1"}, {""})

\* Assistant mode, nobody approved yet.
InitAuth ==
    /\ InitAnyMode
    /\ assistant_mode = TRUE

NextAuth ==
    \/ TickAuth(1)
    \/ TickAuth(AUTH_TTL_SECONDS)
    \/ \E ev \in AuthEvents, env \in AuthEnvs : handle_inbound_event(ev, env)

SpecAuth == InitAuth /\ [][NextAuth]_vars

\* What a handler leaves behind when it returns from an event.
Returned(ev, accepted, reason, reply) ==
    [ op |-> "event", ev |-> ev, accepted |-> accepted, reason |-> reason,
      reply |-> reply, before |-> World ]

\* _handle_whoami, a handler thread of the HTTP server, first step: it reads
\* admin_sender_id() and returns when an admin is set.
whoami_read(h, ev) ==
    /\ hpc[h] = "idle"
    /\ ev.timestamp = clock
    /\ IF common.admin_sender_id # <<>>
       THEN /\ eres' = Returned(ev, TRUE, "", "Admin already set.")
            /\ UNCHANGED <<hpc, harg>>
       ELSE /\ hpc' = [hpc EXCEPT ![h] = "whoami_code"]
            /\ harg' = [harg EXCEPT ![h] = [kind |-> "whoami", ev |-> ev]]
            /\ UNCHANGED eres
    /\ UNCHANGED <<store, clock, gatewayVars, workerVars, qres, configVars, pending, flows>>

\* Second step: it compares the code of the text with admin_setup_code(),
\* which draws and stores a new code when none is stored.
whoami_code(h) ==
    /\ hpc[h] = "whoami_code"
    /\ \E setup_code \in admin_setup_code(tmconf) :
           /\ tmconf' = after_admin_setup_code(tmconf, setup_code)
           /\ IF Strip(SplitRest(Strip(harg[h].ev.text))) # setup_code
              THEN /\ eres' = Returned(harg[h].ev, FALSE, "invalid_setup_code",
                                       "Invalid setup code.")
                   /\ hpc' = [hpc EXCEPT ![h] = "idle"]
                   /\ harg' = [harg EXCEPT ![h] = NoArg]
              ELSE /\ hpc' = [hpc EXCEPT ![h] = "whoami_set"]
                   /\ UNCHANGED <<harg, eres>>
    /\ UNCHANGED <<store, clock, gatewayVars, workerVars, qres, assistant_mode,
                   common, pending, flows>>

\* Last step: set_admin_sender_id(sender_id) and the reply.
whoami_set(h) ==
    /\ hpc[h] = "whoami_set"
    /\ common' = common_set_admin_sender_id(common, harg[h].ev.sender_id)
    /\ tmconf' = clear_admin_setup_code(tmconf)
    /\ eres' = Returned(harg[h].ev, TRUE, "", "Admin set")
    /\ hpc' = [hpc EXCEPT ![h] = "idle"]
    /\ harg' = [harg EXCEPT ![h] = NoArg]
    /\ UNCHANGED <<store, clock, gatewayVars, workerVars, qres, assistant_mode,
                   pending, flows>>

\* !whoami without a code and with either setup code, from two senders.
WhoamiEvents ==
    EventsOf(MessageIds, {Sender1, Sender2}, {Group1, Group2},
             { <<"!whoami">>, <<"!whoami", " ", "s1">>, <<"!whoami", " ", "s2">> },
             {<<>>}, {""}, {<<>>}, {TRUE})

NextWhoami ==
    \/ \E h \in Handlers, ev \in WhoamiEvents : whoami_read(h, ev)
    \/ \E h \in Handlers : whoami_code(h)
    \/ \E h \in Handlers : whoami_set(h)

SpecWhoami == InitAnyMode /\ [][NextWhoami]_vars

\* The setup commands, !whoami with the setup code and other texts, from the
\* admin's two ids and from another sender, in two groups.
SetupEvents ==
    EventsOf({"m1"}, {Sender1, Sender1Plus, Sender2}, {Group1, Group2},
             { SetupText, StopText, <<"!whoami", " ", "s1">>, <<"add">>, Hello },
             {<<>>}, {""}, {<<>>}, {TRUE})

\* Either mode, no admin or Sender1, no scheduling group or Group1.
InitSetup ==
    /\ store = <<>>
    /\ clock = 0
    /\ sends = [id \in AllIds |-> 0]
    /\ locks = [id \in AllIds |-> 0]
    /\ wpc = [w \in Workers |-> "idle"]
    /\ wbatch = [w \in Workers |-> <<>>]
    /\ wmsg = [w \in Workers |-> 0]
    /\ wnow = [w \in Workers |-> NULL]
    /\ wstatus = [w \in Workers |-> ""]
    /\ hpc = [h \in Handlers |-> "idle"]
    /\ harg = [h \in Handlers |-> NoArg]
    /\ qres = NoQuery
    /\ assistant_mode \in BOOLEAN
    /\ \/ /\ common = [admin_sender_id |-> NoSender, approved_numbers |-> {}]
          /\ tmconf \in [group_id : {<<>>}, admin_setup_code : {<<"s1">>}]
       \/ /\ common = [admin_sender_id |-> Sender1, approved_numbers |-> {<<"1">>}]
          /\ tmconf \in [group_id : {<<>>, Group1}, admin_setup_code : {<<>>}]
    /\ pending = EmptyDict
    /\ flows = EmptyDict
    /\ eres = NoEvent

NextSetup ==
    \E ev \in SetupEvents : handle_inbound_event(ev, NoEnv)

SpecSetup == InitSetup /\ [][NextSetup]_vars

\* Every kind of text from the approved admin Sender1 and from Sender2, who
\* is not approved, in one direct chat.
RouteEvents ==
    EventsOf({"m2"}, {Sender1, Sender2}, {Group1},
             { <<"add">>, <<"cancel">>, <<"cancel", " ", "p1">>, <<"list">>,
               <<"instructions">>, Hello, <<>>, <<"!whoami">>, <<"!auth">>,
               SetupText },
             {<<>>}, {"o1"}, {<<>>}, {FALSE})

\* Assistant mode with Sender1 as admin; a record of Sender1 or none, and a
\* flow of Sender1 or of Sender2 (opened while approved) or none.
InitRoute ==
    /\ store \in FlowTables({Sender1}, {"p1"}, {"o1"}, {"SCHEDULED"})
    /\ clock = 0
    /\ sends = [id \in AllIds |-> 0]
    /\ locks = [id \in AllIds |-> 0]
    /\ wpc = [w \in Workers |-> "idle"]
    /\ wbatch = [w \in Workers |-> <<>>]
    /\ wmsg = [w \in Workers |-> 0]
    /\ wnow = [w \in Workers |-> NULL]
    /\ wstatus = [w \in Workers |-> ""]
    /\ hpc = [h \in Handlers |-> "idle"]
    /\ harg = [h \in Handlers |-> NoArg]
    /\ qres = NoQuery
    /\ assistant_mode = TRUE
    /\ common = [admin_sender_id |-> Sender1, approved_numbers |-> {<<"1">>}]
    /\ tmconf = [group_id |-> <<>>, admin_setup_code |-> <<>>]
    /\ pending = EmptyDict
    /\ flows \in FlowsOf({Group1}, Sender1) \cup FlowsOf({Group1}, Sender2)
    /\ eres = NoEvent

NextRoute ==
    \E ev \in RouteEvents : handle_inbound_event(ev, NoEnv)

SpecRoute == InitRoute /\ [][NextRoute]_vars

\* Two phone numbers, and the first one written with a plus sign.
Phone1 == <<"1", "2", "3", "4", "5", "6", "7", "8">>
Phone2 == <<"8", "7", "6", "5", "4", "3", "2", "1">>
Phone1Plus == <<"+">> \o Phone1

\* The `add` message m1, delivered once or again, and replies to the prompts
\* of a flow: recipients, times, texts, `cancel`, nothing, and shared
\* contacts with one number, the same number twice and two numbers; `cancel`
\* also in capitals, and as a reply to a confirmation message.
FlowEvents ==
    EventsOf({"m1"}, {Sender1}, {Group1}, {<<"add">>},
             {<<>>}, {""}, {<<>>}, {TRUE})
      \cup
    EventsOf({"m2"}, {Sender1}, {Group1},
             { Hello, <<>>, Recipient, Phone1, <<"T1">>, <<"T9">> },
             {<<>>}, {""}, {<<>>}, {TRUE})
      \cup
    EventsOf({"m2"}, {Sender1}, {Group1}, {<<"cancel">>, <<" ", "Cancel", " ">>},
             {<<>>}, {"", "o1"}, {<<>>}, {TRUE})
      \cup
    EventsOf({"m2"}, {Sender1}, {Group1}, {<<>>, Hello},
             {<<>>}, {""},
             {<<Phone1>>, <<Phone1, Phone1Plus>>, <<Phone1, Phone2>>}, {TRUE})

\* The reply is delivered with id o1, or the transport fails.
FlowEnvs == EnvsOf({<<"s1">>}, {<<"a1">>}, {"p1"}, {"", "o1"})

\* Either mode, Sender1 is admin and Group1 the scheduling group; no record
\* yet, and no flow or a flow of Sender1 at any step.
InitFlow ==
    /\ store = <<>>
    /\ clock \in 0..MaxFine
    /\ sends = [id \in AllIds |-> 0]
    /\ locks = [id \in AllIds |-> 0]
    /\ wpc = [w \in Workers |-> "idle"]
    /\ wbatch = [w \in Workers |-> <<>>]
    /\ wmsg = [w \in Workers |-> 0]
    /\ wnow = [w \in Workers |-> NULL]
    /\ wstatus = [w \in Workers |-> ""]
    /\ hpc = [h \in Handlers |-> "idle"]
    /\ harg = [h \in Handlers |-> NoArg]
    /\ qres = NoQuery
    /\ assistant_mode \in BOOLEAN
    /\ common = [admin_sender_id |-> Sender1, approved_numbers |-> {<<"1">>}]
    /\ tmconf = [group_id |-> Group1, admin_setup_code |-> <<>>]
    /\ pending = EmptyDict
    /\ flows \in FlowsOf({Group1}, Sender1)
    /\ eres = NoEvent

NextFlow ==
    \E ev \in FlowEvents, env \in FlowEnvs : handle_inbound_event(ev, env)

SpecFlow == InitFlow /\ [][NextFlow]_vars

\* Three flow keys: two senders in one chat, and one of them in another chat.
PairKeys == {<<Group1, Sender1>>, <<Group1, Sender2>>, <<Group2, Sender1>>}

\* The gateway gives every message its own id: the `add` of each key has one.
PairMessage(key) ==
    IF key = <<Group1, Sender1>> THEN "m1"
    ELSE IF key = <<Group1, Sender2>> THEN "m2" ELSE "m3"

\* `add`, a recipient, a time, a text and `cancel`, from the two senders in
\* Group1; in Group2 Sender1 opens a flow, names a recipient and cancels.
PairTexts(key) ==
    IF key[1] = Group1
    THEN { <<"add">>, Recipient, <<"T1">>, Hello, <<"cancel">> }
    ELSE { <<"add">>, Recipient, <<"cancel">> }

PairEvents ==
    UNION { EventsOf({PairMessage(key)}, {key[2]}, {key[1]}, PairTexts(key),
                     {<<>>}, {""}, {<<>>}, {TRUE}) : key \in PairKeys }

\* uuid4() draws an id no record has; the reply is delivered with id o1.
PairUuids == <<"p1", "p2", "p3", "p4">>
PairEnv(st) == [NoEnv EXCEPT !.uuid = PairUuids[Len(st) + 1], !.outbound = "o1"]

\* Assistant mode, where every chat of an approved sender is served; Sender1
\* is admin and both senders are approved; no record and no flow yet.
InitPair ==
    /\ store = <<>>
    /\ clock = 0
    /\ sends = [id \in AllIds |-> 0]
    /\ locks = [id \in AllIds |-> 0]
    /\ wpc = [w \in Workers |-> "idle"]
    /\ wbatch = [w \in Workers |-> <<>>]
    /\ wmsg = [w \in Workers |-> 0]
    /\ wnow = [w \in Workers |-> NULL]
    /\ wstatus = [w \in Workers |-> ""]
    /\ hpc = [h \in Handlers |-> "idle"]
    /\ harg = [h \in Handlers |-> NoArg]
    /\ qres = NoQuery
    /\ assistant_mode = TRUE
    /\ common = [admin_sender_id |-> Sender1, approved_numbers |-> {<<"1">>, <<"2">>}]
    /\ tmconf = [group_id |-> Group1, admin_setup_code |-> <<>>]
    /\ pending = EmptyDict
    /\ flows = EmptyDict
    /\ eres = NoEvent

NextPair ==
    \E ev \in PairEvents : handle_inbound_event(ev, PairEnv(store))

SpecPair == InitPair /\ [][NextPair]_vars

\* The times around the expiry of a flow.
FlowTimes == {p * FLOW_TTL_SECONDS + f : p \in 0..MaxPeriods, f \in 0..1}

TickFlow(d) ==
    /\ clock + d \in FlowTimes
    /\ clock' = clock + d
    /\ UNCHANGED <<store, gatewayVars, workerVars, handlerVars, qres, eventVars>>

\* `add`, commands and replies of Sender1 in the scheduling group.
TtlEvents ==
    EventsOf({"m1"}, {Sender1}, {Group1}, {<<"add">>},
             {<<>>}, {""}, {<<>>}, {TRUE})
      \cup
    EventsOf({"m2"}, {Sender1}, {Group1},
             {<<"cancel">>, <<"list">>, Hello, <<>>, Recipient, <<"T9">>},
             {<<>>}, {""}, {<<>>}, {TRUE})

\* As InitFlow, at time 0 and outside assistant mode.
InitTtl ==
    /\ InitFlow
    /\ clock = 0
    /\ ~assistant_mode

NextTtl ==
    \/ TickFlow(1)
    \/ TickFlow(FLOW_TTL_SECONDS)
    \/ \E ev \in TtlEvents : handle_inbound_event(ev, NoEnv)

SpecTtl == InitTtl /\ [][NextTtl]_vars

\* A sender id that is white space: it has no normalized form.
BlankSender == <<" ">>

\* The auth service's events: !whoami with the setup code, !auth without and
\* with a code, and a text that is no command, from two ids of one number,
\* another number, and ids without a normalized form.
NotifyEvents ==
    EventsOf({"m1"}, {Sender1, Sender1Plus, Sender2, BlankSender, NoSender}, {Group1},
             { <<"!whoami", " ", "s1">>, <<"!auth">>, <<"!auth", " ", "a1">>, Hello },
             {<<>>}, {""}, {<<>>}, BOOLEAN)

\* The auth service, no admin set yet and nobody approved.
InitNotify ==
    /\ InitAnyMode
    /\ assistant_mode = TRUE

NextNotify ==
    \E ev \in NotifyEvents, env \in AuthEnvs : auth_handle_inbound_event(ev, env)

SpecNotify == InitNotify /\ [][NextNotify]_vars

\* One caller of the common runtime config: the three calls, one at a time.
config_call(call, arg) ==
    /\ common' = CASE call = "set_admin_sender_id" -> common_set_admin_sender_id(common, arg)
                   [] call = "add_approved_number" -> add_approved_number(common, arg)
                   [] call = "remove_approved_number" -> remove_approved_number(common, arg)
    /\ eres' = [ op |-> "config", call |-> call, arg |-> arg, before |-> common ]
    /\ UNCHANGED <<store, clock, gatewayVars, workerVars, handlerVars, qres,
                   assistant_mode, tmconf, pending, flows>>

\* Ids: two writings of one number, another number, an id without digits,
\* and ids that have no normalized form.
ConfigIds == {Sender1, Sender1Plus, Sender2, SenderNoDigits, BlankSender, NoSender}

NextConfig ==
    \/ \E arg \in ConfigIds : config_call("set_admin_sender_id", arg)
    \/ \E arg \in ConfigIds : config_call("add_approved_number", arg)
    \/ \E arg \in ConfigIds : config_call("remove_approved_number", arg)

SpecConfig == InitAnyMode /\ [][NextConfig]_vars

\* ---- the runtime config file under concurrent writers
\*
\* `common` is what the file holds when it parses. qres holds the rest:
\* one_process (the two writers are handler threads of one service, sharing
\* one CommonRuntimeConfig and its Lock; otherwise they are two services,
\* each with its own instance and Lock on the same path), lock (who holds
\* the shared Lock), torn (a write_text has truncated the file and has not
\* finished writing it), and seen_torn (some read found a file that did not
\* parse).
FileState(one_process, holder, torn, seen_torn) ==
    [ op |-> "file", one_process |-> one_process, lock |-> holder, torn |-> torn,
      seen_torn |-> seen_torn ]

\* JsonFileConfig._default_data of the common config
default_data == [admin_sender_id |-> NoSender, approved_numbers |-> {}]

\* JsonFileConfig._load_from_disk: the content, or the default data when the
\* file does not parse.
load_from_disk == IF qres.torn THEN default_data ELSE common

\* The calls two writers make: two numbers to approve, and an admin to set.
ConfigCalls ==
    { [kind |-> "config", call |-> "add_approved_number", arg |-> Sender1, data |-> default_data],
      [kind |-> "config", call |-> "add_approved_number", arg |-> Sender2, data |-> default_data],
      [kind |-> "config", call |-> "set_admin_sender_id", arg |-> SenderNoDigits, data |-> default_data] }

\* `with self._lock:` of add_approved_number and set_admin_sender_id.
config_acquire(h, c) ==
    /\ hpc[h] = "idle"
    /\ qres.one_process => qres.lock = ""
    /\ hpc' = [hpc EXCEPT ![h] = "locked"]
    /\ harg' = [harg EXCEPT ![h] = c]
    /\ qres' = [qres EXCEPT !.lock = IF qres.one_process THEN h ELSE @]
    /\ UNCHANGED <<store, clock, gatewayVars, workerVars, eventVars>>

\* data = self._load_from_disk(), and the update made to data in memory.
config_load(h) ==
    /\ hpc[h] = "locked"
    /\ hpc' = [hpc EXCEPT ![h] = "loaded"]
    /\ harg' = [harg EXCEPT ![h].data =
                    IF harg[h].call = "add_approved_number"
                    THEN add_approved_number(load_from_disk, harg[h].arg)
                    ELSE common_set_admin_sender_id(load_from_disk, harg[h].arg)]
    /\ qres' = [qres EXCEPT !.seen_torn = @ \/ qres.torn]
    /\ UNCHANGED <<store, clock, gatewayVars, workerVars, eventVars>>

\* _write_to_disk, first half: Path.write_text opens the file for writing,
\* which truncates it.
config_write_open(h) ==
    /\ hpc[h] = "loaded"
    /\ hpc' = [hpc EXCEPT ![h] = "writing"]
    /\ qres' = [qres EXCEPT !.torn = TRUE]
    /\ UNCHANGED <<store, clock, gatewayVars, workerVars, harg, eventVars>>

\* _write_to_disk, second half: the text is written and the file closed;
\* then self._data = data and the Lock is released.
config_write_close(h) ==
    /\ hpc[h] = "writing"
    /\ hpc' = [hpc EXCEPT ![h] = "done"]
    /\ common' = harg[h].data
    /\ qres' = [qres EXCEPT !.torn = \E o \in Handlers \ {h} : hpc[o] = "writing",
                            !.lock = IF qres.one_process THEN "" ELSE @]
    /\ UNCHANGED <<store, clock, gatewayVars, workerVars, harg, assistant_mode,
                   tmconf, pending, flows, eres>>

\* A reader (admin_sender_id(), approved_numbers()): _refresh_if_changed
\* takes no Lock and loads the file when its mtime has changed.
config_refresh ==
    /\ qres.torn
    /\ ~qres.seen_torn
    /\ qres' = [qres EXCEPT !.seen_torn = TRUE]
    /\ UNCHANGED <<store, clock, gatewayVars, workerVars, handlerVars, eventVars>>

\* The file as a service finds it after some time: nobody or number 2
\* approved, no admin; two writers in one process or in two services.
InitFile ==
    /\ store = <<>>
    /\ clock = 0
    /\ sends = [id \in AllIds |-> 0]
    /\ locks = [id \in AllIds |-> 0]
    /\ wpc = [w \in Workers |-> "idle"]
    /\ wbatch = [w \in Workers |-> <<>>]
    /\ wmsg = [w \in Workers |-> 0]
    /\ wnow = [w \in Workers |-> NULL]
    /\ wstatus = [w \in Workers |-> ""]
    /\ hpc = [h \in Handlers |-> "idle"]
    /\ harg = [h \in Handlers |-> NoArg]
    /\ \E one_process \in BOOLEAN : qres = FileState(one_process, "", FALSE, FALSE)
    /\ assistant_mode = TRUE
    /\ common \in { default_data, add_approved_number(default_data, <<"3">>) }
    /\ tmconf = [group_id |-> <<>>, admin_setup_code |-> <<"s1">>]
    /\ pending = EmptyDict
    /\ flows = EmptyDict
    /\ eres = NoEvent

NextFile ==
    \/ \E h \in Handlers, c \in ConfigCalls : config_acquire(h, c)
    \/ \E h \in Handlers : config_load(h)
    \/ \E h \in Handlers : config_write_open(h)
    \/ \E h \in Handlers : config_write_close(h)
    \/ config_refresh

SpecFile == InitFile /\ [][NextFile]_vars

\* Two records of one sender, due at 1 or 2 each: the workers' iterations
\* over batches of one and of two records, with a transport that may raise.
BatchTables ==
    { << NewMessage(r1, 0), NewMessage(r2, 0) >> :
          r1 \in {r \in Requests : r.idempotency_key = "k1" /\ r.payload.chat_id = "c1" /\ r.aware},
          r2 \in {r \in Requests : r.idempotency_key = "k2" /\ r.payload.chat_id = "c2" /\ r.aware} }

InitBatch ==
    /\ store \in BatchTables
    /\ clock \in {1, 2}
    /\ sends = [id \in AllIds |-> 0]
    /\ locks = [id \in AllIds |-> 0]
    /\ wpc = [w \in Workers |-> "idle"]
    /\ wbatch = [w \in Workers |-> <<>>]
    /\ wmsg = [w \in Workers |-> 0]
    /\ wnow = [w \in Workers |-> NULL]
    /\ wstatus = [w \in Workers |-> ""]
    /\ hpc = [h \in Handlers |-> "idle"]
    /\ harg = [h \in Handlers |-> NoArg]
    /\ qres = NoQuery
    /\ assistant_mode = FALSE
    /\ common = [admin_sender_id |-> NoSender, approved_numbers |-> {}]
    /\ tmconf = [group_id |-> <<>>, admin_setup_code |-> <<"s1">>]
    /\ pending = EmptyDict
    /\ flows = EmptyDict
    /\ eres = NoEvent

NextBatch ==
    \/ TickSecond
    \/ \E w \in Workers : run_once(w)
    \/ \E w \in Workers : dispatch_load(w)
    \/ \E w \in Workers : dispatch_lock(w)
    \/ \E w \in Workers : dispatch_not_locked(w)
    \/ \E w \in Workers : transport_ok(w)
    \/ \E w \in Workers : transport_raise(w)
    \/ \E w \in Workers : dispatch_mark_sent(w)
    \/ \E w \in Workers : dispatch_mark_failed(w)
    \/ \E w \in Workers : run_once_except(w)

SpecBatch == InitBatch /\ [][NextBatch]_vars

\* Settings of WHATSAPP_ASSISTANT_MAX_SCHEDULE_HOURS: unset, whole numbers
\* (plain, padded, signed), zero, a negative number, a fraction, a word and
\* the empty text.
WindowSettings ==
    { [set |-> FALSE, value |-> <<>>] } \cup
    { [set |-> TRUE, value |-> v] :
        v \in { <<"2">>, <<" ", "2", " ">>, <<"+", "1">>, <<"1", "0">>, <<"0">>,
                <<"-", "3">>, <<"2", ".", "5">>, <<"a", "b">>, <<>> } }

\* Distances of send_at from now: around 1, 2, 10 and 24 hours, and in the past.
WindowHours == {1, 2, 10, 24}
WindowDistances ==
    {h * HOUR_SECONDS + d : h \in WindowHours, d \in {-1, 0, 1}} \cup {-1, 0, 1}

\* validate_assistant_schedule_window(send_at=..., now=None) by a lone caller.
window_call(setting, distance, assistant) ==
    /\ qres' = [ op |-> "window", setting |-> setting, now |-> clock,
                 send_at |-> clock + distance, assistant |-> assistant,
                 error |-> validate_window(clock + distance, clock, assistant, setting) ]
    /\ UNCHANGED <<store, clock, gatewayVars, workerVars, handlerVars, eventVars>>

NextWindow ==
    \/ TickSecond
    \/ \E setting \in WindowSettings, distance \in WindowDistances, assistant \in BOOLEAN :
           window_call(setting, distance, assistant)

SpecWindow == Init /\ [][NextWindow]_vars

\* Zones: UTC, and a zone at UTC+2 / UTC+3 whose clocks go forward, or back,
\* one hour at ZoneChange (02:00 -> 03:00, or 03:00 -> 02:00, on day 10).
ZoneChange == 10 * DAY_SECONDS
Zones ==
    { [before |-> 0, after |-> 0, at |-> 0],
      [before |-> 2 * HOUR_SECONDS, after |-> 3 * HOUR_SECONDS, at |-> ZoneChange],
      [before |-> 3 * HOUR_SECONDS, after |-> 2 * HOUR_SECONDS, at |-> ZoneChange] }

\* Instants of `now`: half a day and half an hour before the change, half an
\* hour after it (and 20 s later), and days away from it.
ParseNows ==
    { ZoneChange - 12 * HOUR_SECONDS, ZoneChange - 30 * MINUTE_SECONDS,
      ZoneChange + 30 * MINUTE_SECONDS, ZoneChange + 30 * MINUTE_SECONDS + 20,
      ZoneChange + 3 * DAY_SECONDS, 2 * DAY_SECONDS + 14 * HOUR_SECONDS }
ParseHours == {2, 3, 14, 24}
ParseMinutes == {0, 15, 30, 45, 59}

\* parse_datetime("HH:MM", tz_name, now_utc) by a lone caller.
parse_call(hh, mm, zone, now_utc) ==
    /\ qres' = [ op |-> "parse", hh |-> hh, mm |-> mm, zone |-> zone, now |-> now_utc,
                 send_at |-> parse_hhmm(hh, mm, zone, now_utc) ]
    /\ UNCHANGED <<store, clock, gatewayVars, workerVars, handlerVars, eventVars>>

NextParse ==
    \E hh \in ParseHours, mm \in ParseMinutes, zone \in Zones, now_utc \in ParseNows :
        parse_call(hh, mm, zone, now_utc)

SpecParse == Init /\ [][NextParse]_vars

\* The workers with a transport that succeeds; LiveWorker never crashes and
\* its loop keeps running, a crashed worker stays down, and time passes.
NextLive ==
    \/ TickSecond
    \/ TickLease
    \/ \E w \in Workers : run_once(w)
    \/ \E w \in Workers : dispatch_load(w)
    \/ \E w \in Workers : dispatch_lock(w)
    \/ \E w \in Workers : dispatch_not_locked(w)
    \/ \E w \in Workers : transport_ok(w)
    \/ \E w \in Workers : dispatch_mark_sent(w)
    \/ \E w \in Workers \ {LiveWorker} : crash(w)
    \/ \E req \in DeliveryRequests : schedule_message(Operator, req)
    \/ schedule_create(Operator)
    \/ handler_return(Operator)

LiveWorkerStep ==
    \/ run_once(LiveWorker)
    \/ dispatch_load(LiveWorker)
    \/ dispatch_lock(LiveWorker)
    \/ dispatch_not_locked(LiveWorker)
    \/ transport_ok(LiveWorker)
    \/ dispatch_mark_sent(LiveWorker)

LiveSpec ==
    /\ Init /\ [][NextLive]_vars
    /\ WF_vars(TickSecond) /\ WF_vars(TickLease)
    /\ WF_vars(LiveWorkerStep)

\* ------------------------------------------------------------ specification

\* The delivery system: the workers, the clock and one caller of the service.
NextDelivery ==
    \/ TickSecond
    \/ TickLease
    \/ \E w \in Workers : run_once(w)
    \/ \E w \in Workers : dispatch_load(w)
    \/ \E w \in Workers : dispatch_lock(w)
    \/ \E w \in Workers : dispatch_not_locked(w)
    \/ \E w \in Workers : transport_ok(w)
    \/ \E w \in Workers : transport_raise(w)
    \/ \E w \in Workers : dispatch_mark_sent(w)
    \/ \E w \in Workers : dispatch_mark_failed(w)
    \/ \E w \in Workers : run_once_except(w)
    \/ \E w \in Workers : crash(w)
    \/ \E w \in Workers : restart(w)
    \/ \E req \in DeliveryRequests : schedule_message(Operator, req)
    \/ schedule_create(Operator)
    \/ \E id \in CallIds : cancel_message(Operator, id)
    \/ cancel_commit(Operator)
    \/ handler_return(Operator)

Spec == Init /\ [][NextDelivery]_vars

\* ------------------------------------------------------------------ claims

StatusOf(id) == store[id].status
RowIds == 1..Len(store)

\* A worker that got `True` from lock_for_sending for id and has not yet
\* recorded the outcome.
Holding(w, id) ==
    wmsg[w] = id /\ wpc[w] \in {"send", "mark_sent", "mark_failed"}

Abs(x) == IF x < 0 THEN 0 - x ELSE x

\* C1: once a record is SENT or CANCELLED its status never changes again, in
\* any interleaving of cancel, dispatch and lease takeover.
C1_TerminalStatusIsFinal ==
    [][\A id \in RowIds :
          StatusOf(id) \in {"SENT", "CANCELLED"}
              => store'[id].status = StatusOf(id)]_vars

\* A lock_for_sending call of worker w returns, w having loaded the record
\* while it was SCHEDULED.
C2_CallReturns(w) ==
    /\ wpc[w] = "lock" /\ wstatus[w] = "SCHEDULED"
    /\ wpc'[w] \in {"send", "not_locked"}

\* The call that finds the record still SCHEDULED gets true and makes it LOCKED.
C2_FirstCallWins ==
    \A w \in Workers :
        (C2_CallReturns(w) /\ StatusOf(wmsg[w]) = "SCHEDULED")
            => (wpc'[w] = "send" /\ store'[wmsg[w]].status = "LOCKED")

\* C2 (as claimed): of the workers that call lock_for_sending concurrently on
\* the same SCHEDULED record, exactly one gets true - the first - and every
\* other call gets false, whatever the interleaving.
C2_ExactlyOneLockSucceeds ==
    [][/\ C2_FirstCallWins
       /\ \A w \in Workers :
             (C2_CallReturns(w) /\ wpc'[w] = "send") => locks[wmsg[w]] = 0
      ]_vars

C2_OneHolder ==
    \A w1, w2 \in Workers, id \in RowIds :
        (w1 # w2 /\ Holding(w1, id) /\ Holding(w2, id))
            => Abs(wnow[w1] - wnow[w2]) > LOCK_TIMEOUT_SECONDS

C2_OthersFailWithinLease ==
    \A w \in Workers :
        (C2_CallReturns(w) /\ wpc'[w] = "send")
            => \/ locks[wmsg[w]] = 0
               \/ wnow[w] - store[wmsg[w]].locked_at > LOCK_TIMEOUT_SECONDS

\* C2 (amended): of the workers that call lock_for_sending concurrently on the
\* same SCHEDULED record with `now` values at most LOCK_TIMEOUT_SECONDS apart,
\* exactly one gets true - the first - and every other call gets false, so no
\* two of them hold the record at once; a call whose `now` is more than
\* LOCK_TIMEOUT_SECONDS after the locked_at the winner wrote gets true as well.
C2_OneLockPerLease ==
    [](C2_OneHolder) /\ [][C2_FirstCallWins /\ C2_OthersFailWithinLease]_vars

\* C2 witness: two workers loaded the SCHEDULED record and called
\* lock_for_sending with the same `now`; one holds it, the other got false.
C2_Witness ==
    \E w1, w2 \in Workers, id \in RowIds :
        /\ w1 # w2
        /\ wmsg[w1] = id /\ wpc[w1] = "send" /\ wstatus[w1] = "SCHEDULED"
        /\ wmsg[w2] = id /\ wpc[w2] = "not_locked" /\ wstatus[w2] = "SCHEDULED"
        /\ wnow[w1] = wnow[w2]
        /\ locks[id] = 1

\* C3 (as claimed): the gateway accepts at most one send per record, over any
\* execution with crashes, restarts and lease takeovers.
C3_AtMostOneSend == \A id \in AllIds : sends[id] <= 1

\* C3 (amended): the gateway accepts at most one send per successful
\* lock_for_sending of the record - so at most one for a record whose lease is
\* never re-claimed - and at least one for every record that is SENT.
C3_OneSendPerLock ==
    \A id \in RowIds :
        /\ sends[id] <= locks[id]
        /\ StatusOf(id) = "SENT" => sends[id] >= 1

\* C3 witness: a record that reached SENT after its lease was re-claimed.
C3_Witness ==
    \E id \in RowIds : StatusOf(id) = "SENT" /\ locks[id] = 2 /\ sends[id] >= 1

\* C4: the store never holds two records with the same idempotency_key, also
\* when two schedule calls with the same key run concurrently.
C4_UniqueIdempotencyKey ==
    \A i, j \in RowIds :
        store[i].idempotency_key = store[j].idempotency_key => i = j

\* The step in which a worker's except branch calls mark_failed.
C9_MarkFailedStep(w) == wpc[w] = "mark_failed" /\ wpc'[w] = "raised"

\* C9: when the transport raised, mark_failed leaves the record FAILED with
\* last_error the error string and attempt_count one higher, and the exception
\* goes on to the caller; attempt_count never decreases and only mark_failed
\* changes it.
C9_FailedOnTransportError ==
    [][ /\ \A w \in Workers :
              (wpc[w] = "mark_failed" /\ wpc'[w] \notin {"mark_failed", "down"})
              => /\ wpc'[w] = "raised"
                 /\ store'[wmsg[w]].status = "FAILED"
                 /\ store'[wmsg[w]].last_error = TransportError
                 /\ store'[wmsg[w]].attempt_count = store[wmsg[w]].attempt_count + 1
        /\ \A id \in RowIds :
              /\ store'[id].attempt_count >= store[id].attempt_count
              /\ store'[id].attempt_count # store[id].attempt_count
                   => \E w \in Workers : wmsg[w] = id /\ C9_MarkFailedStep(w)
      ]_vars

\* C9 witness: a worker whose transport call raised has recorded the failure
\* and is about to re-raise.
C9_Witness ==
    \E w \in Workers :
        /\ wpc[w] = "raised"
        /\ StatusOf(wmsg[w]) = "FAILED"
        /\ store[wmsg[w]].attempt_count = 1
        /\ store[wmsg[w]].last_error = TransportError

\* A LOCKED, due record whose lease is more than LOCK_TIMEOUT_SECONDS old.
C5_Stale(id) ==
    /\ StatusOf(id) = "LOCKED"
    /\ store[id].send_at <= clock
    /\ store[id].locked_at < clock - LOCK_TIMEOUT_SECONDS

C5_StaleIsReclaimable ==
    \A id \in RowIds :
        C5_Stale(id) =>
            /\ \A due \in find_due(store, clock, batch_size) :
                  \E i \in 1..Len(due) : due[i] = id
            /\ lock_rowcount(store, id, clock) = 1
            /\ lock(store, id, clock)[id].locked_at = clock

\* Locked, not sent, and no running worker is dispatching it; the clock can
\* still pass the end of the lease.
C5_Orphaned(id) ==
    /\ id \in RowIds
    /\ StatusOf(id) = "LOCKED"
    /\ sends[id] = 0
    /\ \A w \in Workers : ~Holding(w, id)
    /\ store[id].locked_at + LOCK_TIMEOUT_SECONDS < LastTime

C5_Sent(id) == id \in RowIds /\ StatusOf(id) = "SENT"

\* C5: a record locked by a worker that crashed before sending is, once its
\* lease is more than LOCK_TIMEOUT_SECONDS old, returned by list_upcoming and
\* locked again by lock_for_sending, and a live worker with a fair loop and a
\* transport that succeeds brings it to SENT.
C5_LeaseTakeover ==
    /\ [](C5_StaleIsReclaimable)
    /\ \A id \in AllIds : C5_Orphaned(id) ~> C5_Sent(id)

\* C5 witness: the record of a crashed worker, taken over after the lease ran
\* out and delivered by the live worker.
C5_Witness ==
    \E id \in RowIds :
        /\ StatusOf(id) = "SENT"
        /\ locks[id] = 2 /\ sends[id] = 1
        /\ \E w \in Workers : wpc[w] = "down"
        /\ store[id].sent_at > LOCK_TIMEOUT_SECONDS

\* C6: a schedule call that passes validation and whose key exists creates no
\* record, changes no field of any record and returns the stored record of
\* that key - the only one, so every repetition returns the same id.
C6_IdempotentSchedule ==
    [][\A h \in Handlers :
          /\ (hpc[h] = "idle" /\ hpc'[h] = "create")
                => find_by_idempotency_key(store, harg'[h].msg.idempotency_key) = {}
          /\ (hpc[h] = "idle" /\ hpc'[h] = "done" /\ harg'[h].kind = "existing")
                => /\ store' = store
                   /\ find_by_idempotency_key(store, harg'[h].key) = {harg'[h].id}
      ]_vars

\* The records lock_for_sending may claim at `now`.
C7_Lockable(id, now) ==
    /\ id \in RowIds
    /\ \/ StatusOf(id) = "SCHEDULED"
       \/ /\ StatusOf(id) = "LOCKED"
          /\ \/ store[id].locked_at = NULL
             \/ now - store[id].locked_at > LOCK_TIMEOUT_SECONDS

\* C7: lock_for_sending(id, now) returns true, setting status LOCKED and
\* locked_at = now, exactly when the record is SCHEDULED, or LOCKED with
\* locked_at null or older than now - LOCK_TIMEOUT_SECONDS; otherwise it
\* returns false and the store is unchanged.
C7_LockForSending ==
    [][(qres'.op = "lock" /\ clock' = clock) =>
          LET id == qres'.id IN
          /\ qres'.ret <=> C7_Lockable(id, clock)
          /\ qres'.ret =>
                store' = [store EXCEPT ![id].status = "LOCKED",
                                       ![id].locked_at = clock]
          /\ ~qres'.ret => store' = store
      ]_vars

\* C7 witness: lock_for_sending has just re-claimed a LOCKED record whose
\* lease had run out.
C7_Witness ==
    /\ qres.op = "lock" /\ qres.ret /\ qres.was = "LOCKED"
    /\ qres.id \in RowIds
    /\ store[qres.id].locked_at = clock
    /\ clock > LOCK_TIMEOUT_SECONDS

\* The records list_upcoming is to return at `now`.
C8_Due(id, now) ==
    /\ store[id].send_at <= now
    /\ \/ StatusOf(id) = "SCHEDULED"
       \/ /\ StatusOf(id) = "LOCKED"
          /\ \/ store[id].locked_at = NULL
             \/ now - store[id].locked_at > LOCK_TIMEOUT_SECONDS

\* C8: list_upcoming(now, limit) returns exactly the due records that are
\* SCHEDULED, or LOCKED with locked_at null or older than now -
\* LOCK_TIMEOUT_SECONDS, in ascending send_at order, cut to the first `limit`.
C8_ListUpcoming ==
    [][(qres'.op = "list" /\ clock' = clock) =>
          LET ret == qres'.ret
              due == {id \in RowIds : C8_Due(id, clock)}
              got == {ret[i] : i \in 1..Len(ret)}
          IN  /\ got \subseteq due
              /\ Cardinality(got) = Len(ret)
              /\ Len(ret) = Min(qres'.limit, Cardinality(due))
              /\ \A i, j \in 1..Len(ret) :
                    i < j => store[ret[i]].send_at <= store[ret[j]].send_at
              /\ \A id \in due \ got, i \in 1..Len(ret) :
                    store[ret[i]].send_at <= store[id].send_at
      ]_vars

\* C8 witness: a list cut by its limit: it returned a LOCKED record whose
\* lease ran out and left out a due record that is to be sent later.
C8_Witness ==
    /\ qres.op = "list" /\ qres.limit = 1 /\ Len(qres.ret) = 1
    /\ qres.ret[1] \in RowIds
    /\ StatusOf(qres.ret[1]) = "LOCKED"
    /\ store[qres.ret[1]].locked_at # NULL
    /\ \E id \in RowIds :
          /\ C8_Due(id, clock)
          /\ store[id].send_at > store[qres.ret[1]].send_at

\* The records dispatch is to leave alone at `now`.
C10_Skipped(id, now) ==
    \/ id \notin RowIds
    \/ StatusOf(id) \in {"CANCELLED", "SENT", "FAILED"}
    \/ store[id].send_at > now

\* C10: dispatch of a record that is missing, CANCELLED, SENT, FAILED or not
\* yet due calls no transport and changes nothing; a FAILED record is never
\* locked or sent again.
C10_DispatchSkips ==
    [][ /\ (qres'.op = "dispatch" /\ clock' = clock /\ C10_Skipped(qres'.id, clock))
              => /\ qres'.ret = "returned"
                 /\ UNCHANGED <<store, sends, locks>>
        /\ \A id \in RowIds :
              StatusOf(id) = "FAILED"
                  => /\ store'[id].status # "LOCKED"
                     /\ sends'[id] = sends[id]
                     /\ locks'[id] = locks[id]
      ]_vars

\* C10 witness: dispatch has just returned from a due record that is FAILED.
C10_Witness ==
    /\ qres.op = "dispatch" /\ qres.ret = "returned"
    /\ qres.id \in RowIds
    /\ StatusOf(qres.id) = "FAILED"
    /\ store[qres.id].send_at <= clock

\* What the rule of schedule_message refuses: no timezone, not in the future
\* (now itself included), no sender in assistant mode.
C11_Invalid(req) ==
    \/ ~req.aware
    \/ req.send_at <= clock
    \/ assistant_mode /\ req.from_chat_id = <<>>

C11_Created(r) ==
    /\ r.status = "SCHEDULED"
    /\ r.send_at > clock
    /\ r.attempt_count = 0
    /\ assistant_mode => r.from_chat_id # <<>>

\* C11: schedule_message raises and creates no record when send_at has no
\* timezone, when send_at <= now, or when assistant mode is on and
\* from_chat_id is missing; every record it creates is SCHEDULED, has send_at
\* later than the clock at creation, attempt_count 0 and, in assistant mode,
\* a from_chat_id.
C11_ScheduleValidation ==
    [][\A req \in ScheduleRequests : service_schedule(req) =>
          /\ C11_Invalid(req) => qres'.ret = "raised" /\ store' = store
          /\ ~C11_Invalid(req) => qres'.ret # "raised"
          /\ Len(store') > Len(store) =>
                /\ Len(store') = Len(store) + 1
                /\ C11_Created(store'[Len(store')])]_vars

\* A record was created in assistant mode, and a call whose send_at is the
\* current time has just been refused.
C11_Witness ==
    /\ assistant_mode
    /\ \E id \in RowIds : store[id].from_chat_id # <<>>
    /\ qres.op = "schedule_message"
    /\ qres.ret = "raised"
    /\ qres.req.aware
    /\ qres.req.send_at = qres.now
    /\ qres.req.from_chat_id # <<>>

C12_Cancelled(st, id) == [st EXCEPT ![id] = [@ EXCEPT !.status = "CANCELLED"]]

\* C12: cancel_message(id) does nothing for an unknown id and for a
\* CANCELLED record, raises and leaves the record SENT when it is SENT, and
\* sets a SCHEDULED, LOCKED or FAILED record to CANCELLED.
C12_Cancel ==
    [][\A id \in CallIds : service_cancel(id) =>
          /\ ~Exists(store, id) =>
                store' = store /\ qres'.ret = "returned"
          /\ Exists(store, id) /\ StatusOf(id) = "CANCELLED" =>
                store' = store /\ qres'.ret = "returned"
          /\ Exists(store, id) /\ StatusOf(id) = "SENT" =>
                store' = store /\ qres'.ret = "raised"
          /\ Exists(store, id) /\ StatusOf(id) \in {"SCHEDULED", "LOCKED", "FAILED"} =>
                store' = C12_Cancelled(store, id) /\ qres'.ret = "returned"]_vars

\* A FAILED record has just been cancelled, and the cancel of a SENT record
\* before it left that one SENT.
C12_Witness ==
    /\ qres.op = "cancel_message"
    /\ qres.was = "FAILED"
    /\ qres.ret = "returned"
    /\ StatusOf(qres.id) = "CANCELLED"
    /\ \E id \in RowIds : StatusOf(id) = "SENT"

\* The SCHEDULED records of sender_id, by the sender-id rule.
C14_Owned(sender_id) ==
    {id \in RowIds :
        /\ StatusOf(id) = "SCHEDULED"
        /\ normalize_sender_id(store[id].from_chat_id) = normalize_sender_id(sender_id)}

C14_ListedFor(sender_id, limit, ret) ==
    /\ \A i \in 1..Len(ret) : ret[i] \in C14_Owned(sender_id)
    /\ \A i, j \in 1..Len(ret) : i # j => ret[i] # ret[j]
    /\ Len(ret) = Min(limit, Cardinality(C14_Owned(sender_id)))
    /\ IsSortedBy(store, ret)
    /\ \A id \in C14_Owned(sender_id) :
          \/ \E i \in 1..Len(ret) : ret[i] = id
          \/ \A i \in 1..Len(ret) : store[ret[i]].send_at <= store[id].send_at

\* C14: list_scheduled_messages_for_sender(s, limit) returns only SCHEDULED
\* records whose from_chat_id, normalized by the sender-id rule (digits only,
\* the trimmed original when there are no digits), equals the normalized s,
\* and every such record up to limit in ascending send_at order, also for a
\* sender whose id has no digits.
C14_ListForSender ==
    (qres.op = "list_for_sender" /\ qres.sender_id # NoSender) =>
        C14_ListedFor(qres.sender_id, qres.limit, qres.ret)

\* The table before the last event, and whether the event changed anything
\* the handler works on.
Before == eres.before.store
EventChanged == eres.before # World

\* Record id belongs to sender_id, by the sender-id rule.
C13_Owns(id, sender_id) ==
    normalize_sender_id(Before[id].from_chat_id) = normalize_sender_id(sender_id)

\* The 12-hex prefix the event names: in its text, else in the quoted text.
C13_Prefix(ev) ==
    IF extract_id_prefix(ev.text) # "" THEN extract_id_prefix(ev.text)
    ELSE extract_id_prefix(ev.quoted_text)

\* The sender's records the event names: by prefix, else by the quoted
\* confirmation message.
C13_Named(ev) ==
    IF C13_Prefix(ev) # ""
    THEN {id \in RowIds : Before[id].uuid = C13_Prefix(ev) /\ C13_Owns(id, ev.sender_id)}
    ELSE {id \in RowIds : /\ ev.quoted_message_id # ""
                          /\ Before[id].confirmation_message_id = ev.quoted_message_id
                          /\ C13_Owns(id, ev.sender_id)}

C13_Changed == {id \in RowIds : store[id] # Before[id]}

\* C13: a `cancel` event from sender s changes the status of at most one
\* record, and only of a record of s (normalized from_chat_id = normalized s)
\* that the event names by a 12-hex prefix in its text or quoted text, else by
\* the quoted confirmation message id; when the prefix is ambiguous or nothing
\* is named, no record changes and the event is rejected.
C13_CancelOwnRecordOnly ==
    (eres.op = "event" /\ SplitHead(eres.ev.text) = <<"cancel">>) =>
        /\ Len(store) = Len(Before)
        /\ Cardinality(C13_Changed) <= 1
        /\ \A id \in C13_Changed :
              /\ id \in C13_Named(eres.ev)
              /\ store[id] = [Before[id] EXCEPT !.status = "CANCELLED"]
        /\ \/ Cardinality(C13_Named(eres.ev)) > 1 /\ C13_Prefix(eres.ev) # ""
           \/ C13_Named(eres.ev) = {}
           => store = Before /\ ~eres.accepted

\* A cancel has just cancelled one record, and a record of another sender
\* with the same prefix is still SCHEDULED.
C13_Witness ==
    /\ eres.op = "event"
    /\ eres.reply = "Cancelled"
    /\ C13_Changed # {}
    /\ \E i, j \in RowIds :
          /\ StatusOf(i) = "CANCELLED"
          /\ StatusOf(j) = "SCHEDULED"
          /\ store[i].uuid = store[j].uuid
          /\ store[i].from_chat_id # store[j].from_chat_id

\* The last event was an accepted `cancel <12-hex prefix>`.
C15_Cancelled ==
    /\ eres.op = "event"
    /\ SplitHead(eres.ev.text) = <<"cancel">>
    /\ extract_id_prefix(eres.ev.text) # ""
    /\ eres.accepted

\* C15: the same `cancel <12-hex prefix>` event sent twice by the owner is
\* accepted both times: after the first the record is CANCELLED, and the
\* second changes no state.
C15_CancelTwice ==
    /\ [](C15_Cancelled =>
            \E id \in C13_Named(eres.ev) :
                /\ C13_Named(eres.ev) = {id}
                /\ StatusOf(id) = "CANCELLED")
    /\ [][(C15_Cancelled /\ eres'.ev = eres.ev) =>
            /\ eres'.accepted
            /\ <<store, common, tmconf, pending, flows>>'
                  = <<store, common, tmconf, pending, flows>>]_vars

\* The second of two equal cancel events has been accepted: the record was
\* CANCELLED before it, and nothing changed.
C15_Witness ==
    /\ C15_Cancelled
    /\ ~EventChanged
    /\ \E id \in C13_Named(eres.ev) : Before[id].status = "CANCELLED"

\* The commands every sender may send: !whoami, !auth and the setup commands.
IsOpenCommand(text) ==
    \/ StartsWith(Strip(text), "!whoami")
    \/ StartsWith(Strip(text), "!auth")
    \/ Strip(text) \in {SetupText, StopText}

\* C16: in assistant mode an event of a sender who is not approved, other
\* than !whoami, !auth and the setup commands, is rejected with
\* unauthorized_sender; it creates, advances and clears no flow, creates and
\* cancels no record, and is answered (`Unauthorized`) only when is_group is
\* false.
C16_UnapprovedRejected ==
    ( /\ eres.op = "event"
      /\ assistant_mode
      /\ ~is_sender_approved(eres.before.common, eres.ev.sender_id)
      /\ ~IsOpenCommand(eres.ev.text) ) =>
        /\ ~eres.accepted
        /\ eres.reason = "unauthorized_sender"
        /\ flows = eres.before.flows
        /\ store = eres.before.store
        /\ ~EventChanged
        /\ eres.ev.is_group => eres.reply = ""
        /\ ~eres.ev.is_group => eres.reply = "Unauthorized."

\* An unapproved sender with an active flow and a record has sent `cancel`
\* in a group: rejected, not answered.
C16_Witness ==
    /\ eres.op = "event"
    /\ assistant_mode
    /\ ~is_sender_approved(eres.before.common, eres.ev.sender_id)
    /\ eres.ev.text = <<"cancel">>
    /\ eres.ev.is_group
    /\ eres.reason = "unauthorized_sender"
    /\ <<eres.ev.chat_id, eres.ev.sender_id>> \in DOMAIN flows
    /\ \E id \in RowIds : StatusOf(id) = "SCHEDULED"

\* C17: outside assistant mode an event that is no command (!whoami, !auth,
\* setup) and whose chat_id is not the configured scheduling group, or any
\* such event while no group is configured, is rejected with
\* unauthorized_group, gets no reply and changes no flow and no record.
C17_OtherGroupRejected ==
    ( /\ eres.op = "event"
      /\ ~assistant_mode
      /\ ~IsOpenCommand(eres.ev.text)
      /\ \/ eres.before.tmconf.group_id = <<>>
         \/ eres.ev.chat_id # eres.before.tmconf.group_id ) =>
        /\ ~eres.accepted
        /\ eres.reason = "unauthorized_group"
        /\ eres.reply = ""
        /\ flows = eres.before.flows
        /\ store = eres.before.store
        /\ ~EventChanged

\* While Group1 is the scheduling group, `cancel` arrived from Group2, where
\* the sender has a flow, and was rejected; the sender's record is untouched.
C17_Witness ==
    /\ eres.op = "event"
    /\ ~assistant_mode
    /\ tmconf.group_id = Group1
    /\ eres.ev.chat_id = Group2
    /\ eres.ev.text = <<"cancel">>
    /\ eres.reason = "unauthorized_group"
    /\ <<Group2, eres.ev.sender_id>> \in DOMAIN flows
    /\ \E id \in RowIds : StatusOf(id) = "SCHEDULED"

\* The code an !auth event supplies, and the key its sender's code is under.
C18_Code == Strip(SplitRest(Strip(eres.ev.text)))
C18_Key == normalize_sender_id(eres.ev.sender_id)

\* C18: an !auth event adds to approved_numbers nothing but its sender's
\* normalized id, and only when the code it supplies equals the pending code
\* stored under that normalized id and that entry is not older than 30
\* minutes; the pending entry is gone once the sender is approved.
C18_ApprovedByPendingCode ==
    (eres.op = "event" /\ StartsWith(Strip(eres.ev.text), "!auth")) =>
        \A n \in approved_numbers(common) \ approved_numbers(eres.before.common) :
            /\ n = C18_Key
            /\ C18_Key \in DOMAIN eres.before.pending
            /\ C18_Code = eres.before.pending[C18_Key].code
            /\ eres.ev.timestamp - eres.before.pending[C18_Key].updated_at
                   <= AUTH_TTL_SECONDS
            /\ C18_Key \notin DOMAIN pending
            /\ eres.accepted

\* A sender was approved with a code that was exactly 30 minutes old, while
\* another number's code was pending.
C18_Witness ==
    /\ eres.op = "event"
    /\ eres.reply = "Approved"
    /\ C18_Key \in approved_numbers(common) \ approved_numbers(eres.before.common)
    /\ eres.ev.timestamp - eres.before.pending[C18_Key].updated_at = AUTH_TTL_SECONDS
    /\ DOMAIN pending # {}

\* The code a handler's !whoami carries.
C19_Code(h) == Strip(SplitRest(Strip(harg[h].ev.text)))

\* C19: once admin_sender_id is set no !whoami changes it; while it is
\* empty only a !whoami that carries the current setup code sets it, and a
\* !whoami rejected with invalid_setup_code leaves the admin as it was, under
\* every interleaving of !whoami events handled at the same time.
C19_AdminSetOnce ==
    [][ /\ common.admin_sender_id # <<>> =>
            common'.admin_sender_id = common.admin_sender_id
        /\ (common.admin_sender_id = <<>> /\ common'.admin_sender_id # <<>>) =>
            \E h \in Handlers :
                /\ hpc[h] = "whoami_set"
                /\ common'.admin_sender_id = harg[h].ev.sender_id
                /\ C19_Code(h) = tmconf.admin_setup_code
        /\ (eres' # eres /\ eres'.reason = "invalid_setup_code") =>
            common' = common ]_vars

C20_IsSetup == Strip(eres.ev.text) \in {SetupText, StopText}
C20_Admin == eres.before.common.admin_sender_id
C20_GroupChanged == tmconf.group_id # eres.before.tmconf.group_id

\* C20: outside assistant mode the scheduling group is changed only by a
\* setup or a stop command whose sender_id equals admin_sender_id: setup sets
\* it to the event's chat_id, stop clears it; with no admin the command is
\* rejected with admin_not_configured and from any other sender with
\* unauthorized_admin, the group staying as it was. In assistant mode both
\* commands are accepted and change nothing.
C20_SetupByAdminOnly ==
    eres.op = "event" =>
        /\ C20_GroupChanged =>
               /\ ~assistant_mode
               /\ C20_IsSetup
               /\ C20_Admin # <<>>
               /\ eres.ev.sender_id = C20_Admin
        /\ (C20_IsSetup /\ ~assistant_mode /\ C20_Admin = <<>>) =>
               /\ ~eres.accepted
               /\ eres.reason = "admin_not_configured"
               /\ ~C20_GroupChanged
        /\ (C20_IsSetup /\ ~assistant_mode /\ C20_Admin # <<>>
              /\ eres.ev.sender_id # C20_Admin) =>
               /\ ~eres.accepted
               /\ eres.reason = "unauthorized_admin"
               /\ ~C20_GroupChanged
        /\ (C20_IsSetup /\ ~assistant_mode /\ C20_Admin # <<>>
              /\ eres.ev.sender_id = C20_Admin) =>
               /\ eres.accepted
               /\ tmconf.group_id = IF Strip(eres.ev.text) = SetupText
                                    THEN eres.ev.chat_id ELSE <<>>
        /\ (C20_IsSetup /\ assistant_mode) =>
               /\ eres.accepted
               /\ ~EventChanged

\* The admin's setup command moved the group from Group1 to Group2.
C20_Witness ==
    /\ eres.op = "event"
    /\ ~assistant_mode
    /\ Strip(eres.ev.text) = SetupText
    /\ eres.ev.sender_id = C20_Admin
    /\ eres.before.tmconf.group_id = Group1
    /\ tmconf.group_id = Group2

\* The flow an event met: the one stored under its (chat_id, sender_id) and
\* not expired at its timestamp.
FlowKey == <<eres.ev.chat_id, eres.ev.sender_id>>
MetFlow ==
    /\ FlowKey \in DOMAIN eres.before.flows
    /\ eres.ev.timestamp - eres.before.flows[FlowKey].updated_at <= FLOW_TTL_SECONDS

\* What the top-level commands reply and reject with.
TopLevelReplies ==
    {"To Who?", "Options", "Scheduled messages", "Cancelled", "invalid cancel id"}
TopLevelReasons == {"no_text", "not_actionable", "Invalid_cancel_id"}

\* C21: !whoami, !auth and the setup commands are handled before the gates
\* and before an active flow (they are not turned away by a gate and leave
\* the flows and the records alone); while a flow that has not expired
\* exists for (chat_id, sender_id), every other event that passes the gates
\* is handled by the flow step and never as a top-level add, list, cancel or
\* instructions command.
C21_FirstMatchWins ==
    eres.op = "event" =>
        /\ IsOpenCommand(eres.ev.text) =>
               /\ eres.reason \notin {"unauthorized_sender", "unauthorized_group"}
               /\ eres.reply \in
                      IF StartsWith(Strip(eres.ev.text), "!whoami")
                      THEN {"Admin already set.", "Invalid setup code.", "Admin set"}
                      ELSE IF StartsWith(Strip(eres.ev.text), "!auth")
                      THEN {"Please DM me to authenticate.", "Already approved.",
                            "Auth code generated.", "No pending auth request.",
                            "Invalid auth code.", "Approved"}
                      ELSE {"Setup commands are not needed in assistant mode."}
               /\ flows = eres.before.flows
               /\ store = eres.before.store
        /\ ( /\ ~IsOpenCommand(eres.ev.text)
             /\ is_sender_approved(eres.before.common, eres.ev.sender_id)
             /\ MetFlow ) =>
               /\ eres.accepted
               /\ eres.reply \notin TopLevelReplies
               /\ eres.reason \notin TopLevelReasons
               /\ \A id \in 1..Len(eres.before.store) :
                      store[id].status = eres.before.store[id].status
               /\ FlowKey \in DOMAIN flows =>
                      flows[FlowKey].request_id = eres.before.flows[FlowKey].request_id

\* `list` arrived while its sender's flow waited for a recipient: it was
\* taken as the recipient and the prompt was repeated.
C21_Witness ==
    /\ eres.op = "event"
    /\ eres.ev.text = <<"list">>
    /\ MetFlow
    /\ eres.before.flows[FlowKey].step = "to"
    /\ eres.reply = "Please reply with a phone number"
    /\ FlowKey \in DOMAIN flows

\* The step of the event's flow in a flow store, "none" when it has none.
StepIn(f) == IF FlowKey \in DOMAIN f THEN f[FlowKey].step ELSE "none"
StepBefore == StepIn(eres.before.flows)
StepAfter == StepIn(flows)

\* The texts that are `cancel` once trimmed and put in lower case.
CancelWords == {<<"cancel">>, <<"Cancel">>, <<"CANCEL">>}

\* The event was a reply to a prompt of a flow (and not its `cancel`).
FlowReply ==
    /\ eres.op = "event"
    /\ ~IsOpenCommand(eres.ev.text)
    /\ MetFlow
    /\ Strip(eres.ev.text) \notin CancelWords

\* The numbers of eight digits or more of the shared contact.
C22_Numbers ==
    {DigitsOf(x) : x \in {y \in Range(eres.ev.contact_phone) : Len(DigitsOf(y)) >= 8}}

\* Exactly one recipient resolves: the contact has at most one number, and
\* the text is a chat id or holds a number, or the contact has one.
C22_OneRecipient ==
    /\ Cardinality(C22_Numbers) <= 1
    /\ \/ \E i \in 1..Len(eres.ev.text) : eres.ev.text[i] = "@"
       \/ Len(DigitsOf(eres.ev.text)) >= 8
       \/ Cardinality(C22_Numbers) = 1

\* The time parses, is after now and inside the assistant window.
C22_GoodTime ==
    /\ Len(eres.ev.text) = 1
    /\ eres.ev.text[1] \in DOMAIN TimeOf
    /\ TimeOf[eres.ev.text[1]] > eres.ev.timestamp
    /\ assistant_mode =>
           TimeOf[eres.ev.text[1]] - eres.ev.timestamp <= ASSISTANT_MAX_SCHEDULE_SECONDS

\* The step stayed, the prompt was repeated and no record was created.
C22_Stays ==
    /\ StepAfter = StepBefore
    /\ eres.accepted
    /\ eres.reply # ""
    /\ store = eres.before.store

C22_ToWhen == StepBefore = "to" /\ StepAfter = "when" /\ C22_OneRecipient
C22_WhenText == StepBefore = "when" /\ StepAfter = "text" /\ C22_GoodTime
C22_TextDone ==
    /\ StepBefore = "text" /\ StepAfter = "none"
    /\ Strip(eres.ev.text) # <<>>

\* The flow went back from `text` to `when`: its send_at had passed when the
\* text arrived; no record was created.
C22_TextWhen ==
    /\ StepBefore = "text" /\ StepAfter = "when"
    /\ Strip(eres.ev.text) # <<>>
    /\ eres.before.flows[FlowKey].send_at <= eres.ev.timestamp
    /\ eres.accepted
    /\ eres.reason = "send_at must be in the future"
    /\ eres.reply = "Time must be in the future."
    /\ store = eres.before.store

\* C22 as stated: a flow's step only advances to -> when -> text: step `to`
\* only when exactly one recipient resolves, step `when` only when the time
\* parses, is after now and passes the assistant window; every other reply
\* leaves the step unchanged, repeats the prompt and creates no record.
C22_StepOnlyAdvances ==
    FlowReply => (C22_ToWhen \/ C22_WhenText \/ C22_TextDone \/ C22_Stays)

\* C22, amended: the step changes only to -> when -> text under those
\* conditions, except that a text arriving in step `text` after the flow's
\* send_at has passed sends the flow back to step `when`, with no record;
\* every other reply leaves the step unchanged, repeats the prompt and
\* creates no record.
C22_StepAdvancesOrReturns ==
    FlowReply =>
        (C22_ToWhen \/ C22_WhenText \/ C22_TextDone \/ C22_TextWhen \/ C22_Stays)

\* A text came for a flow in step `text` whose time had passed: the flow is
\* back in step `when`.
C22_Witness ==
    /\ FlowReply
    /\ C22_TextWhen
    /\ eres.ev.text = Hello

\* A non-empty text arrived in step `text` and schedule_message returned a
\* record.
C23_Scheduled ==
    /\ FlowReply
    /\ StepBefore = "text"
    /\ eres.reply = "Scheduled"

\* The records scheduled from the `add` message that opened the flow.
C23_Records(st) ==
    {id \in 1..Len(st) :
        st[id].idempotency_key = eres.before.flows[FlowKey].request_id}

\* C23: when a non-empty text arrives in step `text` and schedule succeeds,
\* the store gains exactly one SCHEDULED record with the flow's to_chat_id
\* as chat_id, the sender as from_chat_id, the flow's send_at and the
\* message_id of the `add` event as idempotency_key, the only record of that
\* `add` message; the id of the confirmation reply is stored as its
\* confirmation_message_id and the flow is cleared.
C23_TextStepSchedules ==
    C23_Scheduled =>
        /\ Len(store) = Len(eres.before.store) + 1
        /\ SubSeq(store, 1, Len(eres.before.store)) = eres.before.store
        /\ C23_Records(store) = {Len(store)}
        /\ store[Len(store)].status = "SCHEDULED"
        /\ store[Len(store)].chat_id = eres.before.flows[FlowKey].to_chat_id
        /\ store[Len(store)].from_chat_id = eres.ev.sender_id
        /\ store[Len(store)].send_at = eres.before.flows[FlowKey].send_at
        /\ store[Len(store)].text = Strip(eres.ev.text)
        /\ eres.outbound # "" =>
               store[Len(store)].confirmation_message_id = eres.outbound
        /\ FlowKey \notin DOMAIN flows
        /\ eres.accepted

\* C24: in any step of a flow a message whose trimmed text is `cancel` in
\* any case clears the flow of its (chat_id, sender_id), is accepted, and
\* neither creates nor cancels a record.
C24_CancelClearsFlow ==
    ( /\ eres.op = "event"
      /\ MetFlow
      /\ Strip(eres.ev.text) \in CancelWords ) =>
        /\ FlowKey \notin DOMAIN flows
        /\ eres.accepted
        /\ eres.reply = "Canceled scheduling."
        /\ store = eres.before.store
        /\ flows = DictPop(eres.before.flows, FlowKey)

\* ` Cancel ` came in step `text` as a reply to the confirmation message of
\* a scheduled record: the flow is gone, the record is still scheduled.
C24_Witness ==
    /\ eres.op = "event"
    /\ MetFlow
    /\ eres.ev.text = <<" ", "Cancel", " ">>
    /\ StepBefore = "text"
    /\ FlowKey \notin DOMAIN flows
    /\ \E id \in RowIds :
           /\ store[id].confirmation_message_id = eres.ev.quoted_message_id
           /\ store[id].status = "SCHEDULED"

\* The event met a flow under its key that had expired.
C25_Expired ==
    /\ eres.op = "event"
    /\ ~IsOpenCommand(eres.ev.text)
    /\ FlowKey \in DOMAIN eres.before.flows
    /\ eres.ev.timestamp - eres.before.flows[FlowKey].updated_at > FLOW_TTL_SECONDS

\* What the event gives when the sender has no flow.
C25_WithoutFlow ==
    handle_event([eres.before EXCEPT !.flows = DictPop(@, FlowKey)],
                 eres.ev, NoEnv, eres.ev.timestamp, assistant_mode)

\* C25: a flow whose updated_at is more than 30 minutes before the event's
\* timestamp is discarded when it is looked up and the event is routed as if
\* there were no flow; a flow updated within the last 30 minutes is
\* honoured; and every event the flow step handles sets the flow's
\* updated_at to the event's timestamp.
C25_FlowTtl ==
    /\ C25_Expired =>
           /\ store = C25_WithoutFlow.w.store
           /\ flows = C25_WithoutFlow.w.flows
           /\ eres.accepted = C25_WithoutFlow.accepted
           /\ eres.reason = C25_WithoutFlow.reason
           /\ eres.reply = C25_WithoutFlow.reply
    /\ (eres.op = "event" /\ ~IsOpenCommand(eres.ev.text) /\ MetFlow) =>
           /\ eres.accepted
           /\ eres.reply \notin TopLevelReplies
           /\ eres.reason \notin TopLevelReasons
           /\ FlowKey \in DOMAIN flows =>
                  /\ flows[FlowKey].updated_at = eres.ev.timestamp
                  /\ flows[FlowKey].request_id = eres.before.flows[FlowKey].request_id

\* A reply that did not resolve came exactly 30 minutes after the flow was
\* last touched: the flow took it and is now touched at that time.
C25_Witness ==
    /\ eres.op = "event"
    /\ MetFlow
    /\ eres.ev.text = Hello
    /\ StepBefore = "to"
    /\ eres.ev.timestamp - eres.before.flows[FlowKey].updated_at = FLOW_TTL_SECONDS
    /\ FlowKey \in DOMAIN flows
    /\ flows[FlowKey].updated_at = eres.ev.timestamp

\* The event is an !auth; its sender has a pending code that has not
\* expired; the entries that have not expired are what they were.
IsAuth == eres.op = "event" /\ StartsWith(Strip(eres.ev.text), "!auth")
C26_Live(key) ==
    /\ key \in DOMAIN eres.before.pending
    /\ eres.ev.timestamp - eres.before.pending[key].updated_at <= AUTH_TTL_SECONDS
C26_LiveKept ==
    \A key \in DOMAIN eres.before.pending :
        C26_Live(key) => (key \in DOMAIN pending /\ pending[key] = eres.before.pending[key])
C26_Rejected(reason) ==
    /\ ~eres.accepted
    /\ eres.reason = reason
    /\ approved_numbers(common) = approved_numbers(eres.before.common)
    /\ common = eres.before.common
    /\ C26_LiveKept

C26_InGroup == eres.ev.is_group => (C26_Rejected("auth_in_group") /\ pending = eres.before.pending)
C26_NotRequested == ~eres.ev.is_group /\ C18_Code # <<>> /\ ~C26_Live(C18_Key)
C26_WrongCode ==
    /\ ~eres.ev.is_group /\ C18_Code # <<>> /\ C26_Live(C18_Key)
    /\ C18_Code # eres.before.pending[C18_Key].code

\* C26 as stated: !auth in a group is rejected with auth_in_group and draws
\* no code; `!auth <code>` with no live pending entry of the sender is
\* rejected with auth_not_requested, with a code other than the pending one
\* with invalid_auth_code; each rejection leaves approved_numbers and the
\* live pending entries as they were.
C26_AuthRejections ==
    IsAuth =>
        /\ C26_InGroup
        /\ C26_NotRequested => C26_Rejected("auth_not_requested")
        /\ C26_WrongCode => C26_Rejected("invalid_auth_code")

\* C26, amended: the same, the two code rejections being those of a sender
\* who is not approved yet (an approved sender's !auth, with or without a
\* code, is accepted with `Already approved`).
C26_AuthRejectionsUnapproved ==
    IsAuth =>
        /\ C26_InGroup
        /\ (C26_NotRequested /\ ~is_sender_approved(eres.before.common, eres.ev.sender_id))
               => C26_Rejected("auth_not_requested")
        /\ (C26_WrongCode /\ ~is_sender_approved(eres.before.common, eres.ev.sender_id))
               => C26_Rejected("invalid_auth_code")
        /\ (~eres.ev.is_group /\ is_sender_approved(eres.before.common, eres.ev.sender_id))
               => ( /\ eres.accepted
                    /\ eres.reply = "Already approved."
                    /\ ~EventChanged )

\* A wrong code came while the sender's code was pending: rejected, and the
\* code is still pending.
C26_Witness ==
    /\ IsAuth
    /\ C26_WrongCode
    /\ eres.reason = "invalid_auth_code"
    /\ C18_Key \in DOMAIN pending
    /\ approved_numbers(common) # {}

\* The auth service handled a code-less !auth of a sender who is not
\* approved, in a direct chat.
C27_Codeless ==
    /\ eres.op = "auth_event"
    /\ StartsWith(Strip(eres.ev.text), "!auth")
    /\ SplitRest(Strip(eres.ev.text)) = <<>>
    /\ ~eres.ev.is_group
    /\ ~is_sender_approved(eres.before.common, eres.ev.sender_id)
C27_AdminId == eres.before.common.admin_sender_id
C27_Requester == normalize_sender_id(eres.ev.sender_id)
\* The one message to the admin carries the code now pending for the sender.
C27_CarriesPendingCode ==
    eres.notify # <<>> =>
        /\ Len(eres.notify) = 1
        /\ eres.notify[1].to = C27_AdminId
        /\ eres.notify[1].sender = eres.ev.sender_id
        /\ C27_Requester \in DOMAIN pending
        /\ eres.notify[1].code = pending[C27_Requester].code

C28_Admin == common.admin_sender_id
C28_AdminApproved ==
    /\ normalize_sender_id(C28_Admin) \in approved_numbers(common)
    /\ is_sender_approved(common, C28_Admin)

\* C28 as stated: whenever admin_sender_id is non-empty, approved_numbers()
\* holds the admin's normalized id and is_sender_approved(admin) is true,
\* after any sequence of set_admin_sender_id, add_approved_number and
\* remove_approved_number calls.
C28_AdminAlwaysApproved == C28_Admin # <<>> => C28_AdminApproved

\* C28, amended: the same whenever admin_sender_id has a non-empty normalized
\* id; an admin id of white space alone is neither listed nor approved.
C28_NormalizedAdminAlwaysApproved ==
    /\ normalize_sender_id(C28_Admin) # <<>> => C28_AdminApproved
    /\ (C28_Admin # <<>> /\ normalize_sender_id(C28_Admin) = <<>>)
           => ~is_sender_approved(common, C28_Admin)

\* The admin's number was removed from the stored list, and the admin is
\* still approved.
C28_Witness ==
    /\ eres.op = "config"
    /\ eres.call = "remove_approved_number"
    /\ C28_Admin = Sender1
    /\ eres.arg = Sender1Plus
    /\ normalize_sender_id(Sender1) \in eres.before.approved_numbers
    /\ normalize_sender_id(Sender1) \notin common.approved_numbers
    /\ is_sender_approved(common, Sender1)

\* The update of writer h is in the file.
C29_Present(h) ==
    IF harg[h].call = "add_approved_number"
    THEN normalize_sender_id(harg[h].arg) \in common.approved_numbers
    ELSE /\ common.admin_sender_id = harg[h].arg
         /\ normalize_sender_id(harg[h].arg) \in common.approved_numbers
C29_BothDone == qres.op = "file" /\ \A h \in Handlers : hpc[h] = "done"

\* C29: config writes are serialized, atomic read-modify-writes: after two
\* concurrent writers (of one process or of two services) both updates are
\* in the file, what the file held before is still there, and no reader or
\* writer ever finds a partially written file.
C29_WritesAtomic ==
    qres.op = "file" =>
        /\ ~qres.seen_torn
        /\ C29_BothDone => \A h \in Handlers : C29_Present(h)

\* What the handler of the last event returns and leaves behind when the
\* transport hands back `outbound` as the id of its reply ("" = the send
\* raised, and _send_reply returned None).
C30_Handled(outbound) ==
    handle_event(eres.before, eres.ev, [NoEnv EXCEPT !.outbound = outbound],
                 eres.ev.timestamp, assistant_mode)
\* The records, their confirmation ids aside.
C30_Unconfirmed(st) == [id \in 1..Len(st) |-> [st[id] EXCEPT !.confirmation_message_id = ""]]
\* The confirmation ids are those the records had before; a new record has none.
C30_ConfirmationsKept(st) ==
    \A id \in 1..Len(st) :
        st[id].confirmation_message_id =
            IF id <= Len(eres.before.store)
            THEN eres.before.store[id].confirmation_message_id
            ELSE ""

\* C30: a transport failure while a reply is sent does not change what the
\* handler returns (accepted, reason) nor what it does to flows, records and
\* config; in step `text` the record is created and the flow cleared all the
\* same, and only confirmation_message_id stays unset.
C30_ReplyFailureChangesNothing ==
    eres.op = "event" =>
        \E sent \in {C30_Handled("o1")}, lost \in {C30_Handled("")} :
            /\ lost.accepted = sent.accepted
            /\ lost.reason = sent.reason
            /\ lost.reply = sent.reply
            /\ lost.w.flows = sent.w.flows
            /\ lost.w.common = sent.w.common
            /\ lost.w.tmconf = sent.w.tmconf
            /\ lost.w.pending = sent.w.pending
            /\ C30_Unconfirmed(lost.w.store) = C30_Unconfirmed(sent.w.store)
            /\ C30_ConfirmationsKept(lost.w.store)
            /\ eres.outbound = "" =>
                   /\ World = lost.w
                   /\ eres.accepted = lost.accepted
                   /\ eres.reason = lost.reason
            /\ (StepBefore = "text" /\ sent.reply = "Scheduled") =>
                   /\ FlowKey \notin DOMAIN lost.w.flows
                   /\ Len(lost.w.store) = Len(sent.w.store)
                   /\ Len(sent.w.store) > Len(eres.before.store) =>
                          /\ lost.w.store[Len(lost.w.store)].status = "SCHEDULED"
                          /\ lost.w.store[Len(lost.w.store)].confirmation_message_id = ""

\* The text of a flow arrived and the confirmation could not be sent: the
\* record is there without a confirmation id, the flow is gone.
C30_Witness ==
    /\ eres.op = "event"
    /\ eres.outbound = ""
    /\ StepBefore = "text"
    /\ StepAfter = "none"
    /\ eres.accepted
    /\ eres.reply = "Scheduled"
    /\ Len(store) = Len(eres.before.store) + 1
    /\ store[Len(store)].confirmation_message_id = ""
    /\ store[Len(store)].status = "SCHEDULED"

\* The rest of a worker's batch is in ascending send_at order, and the
\* message being dispatched is its first.
C31_InOrder ==
    \A w \in Workers :
        /\ IsSortedBy(store, wbatch[w])
        /\ \A i \in 1..Len(wbatch[w]) : Exists(store, wbatch[w][i])
        /\ wmsg[w] # 0 => (wbatch[w] # <<>> /\ wmsg[w] = Head(wbatch[w]))
        /\ wpc[w] \in {"batch", "raised"} => wbatch[w] # <<>>
\* After the exception of a dispatch the loop takes the next record of the
\* batch, and polls again after the last.
C31_Continues ==
    \A w \in Workers :
        (wpc[w] = "raised" /\ wpc'[w] # "raised") =>
            /\ wbatch'[w] = Tail(wbatch[w])
            /\ wpc'[w] = IF Len(wbatch[w]) > 1 THEN "batch" ELSE "idle"
\* The dispatch of a batch starts with its first record.
C31_TakesFirst ==
    \A w \in Workers :
        (wpc[w] = "batch" /\ wpc'[w] # "batch") =>
            \/ wpc'[w] = "lock" /\ wmsg'[w] = Head(wbatch[w]) /\ wbatch'[w] = wbatch[w]
            \/ wpc'[w] = "idle" /\ Len(wbatch[w]) = 1

\* C31: within one iteration of the worker an exception of one record's
\* dispatch does not end the iteration: the later records of the batch are
\* dispatched, in ascending send_at order, and the loop polls again.
C31_BatchSurvivesException ==
    /\ []C31_InOrder
    /\ [][C31_Continues /\ C31_TakesFirst]_vars

\* The first record of a batch of two failed in the transport, and the
\* worker has gone on to send the second. (The other worker holds the same
\* batch and has not begun, so both records were dispatched by this one, in
\* the one iteration in which both were due.)
C31_Witness ==
    /\ wpc["w1"] = "batch"
    /\ wbatch["w1"] = <<1, 2>>
    /\ wpc[LiveWorker] = "mark_sent"
    /\ wmsg[LiveWorker] = 2
    /\ wbatch[LiveWorker] = <<2>>
    /\ store[1].status = "FAILED"
    /\ store[1].send_at = store[2].send_at
    /\ sends[2] = 1
    /\ locks[1] = 1

\* C32: in every reachable state every SENT record has a sent_at and every
\* LOCKED record has a locked_at.
C32_StampedStatus ==
    \A id \in RowIds :
        /\ StatusOf(id) = "SENT" => store[id].sent_at # NULL
        /\ StatusOf(id) = "LOCKED" => store[id].locked_at # NULL

\* A record that was locked and sent: it carries both stamps.
C32_Witness ==
    \E id \in RowIds :
        /\ StatusOf(id) = "SENT"
        /\ store[id].sent_at # NULL
        /\ store[id].locked_at # NULL
        /\ store[id].sent_at >= store[id].locked_at
        /\ sends[id] = 1

\* The hours each setting stands for, as C33 words it: a positive whole
\* number counts as itself, anything else as 24.
C33_Hours(setting) ==
    IF ~setting.set THEN 24
    ELSE CASE setting.value = <<"2">> -> 2
           [] setting.value = <<" ", "2", " ">> -> 2
           [] setting.value = <<"+", "1">> -> 1
           [] setting.value = <<"1", "0">> -> 10
           [] OTHER -> 24

\* C33: validate_assistant_schedule_window rejects exactly when assistant
\* mode is on and send_at - now is strictly greater than the configured
\* hours (a difference equal to the limit is accepted; a missing,
\* non-integer or non-positive setting counts as 24 hours); it accepts
\* everything when assistant mode is off.
C33_WindowLimit ==
    qres.op = "window" =>
        /\ (qres.error # "") <=>
               ( /\ qres.assistant
                 /\ qres.send_at - qres.now > C33_Hours(qres.setting) * 3600 )
        /\ ~qres.assistant => qres.error = ""

\* A time exactly two hours ahead was accepted under a limit of 2 hours.
C33_Witness ==
    /\ qres.op = "window"
    /\ qres.assistant
    /\ qres.setting = [set |-> TRUE, value |-> <<"2">>]
    /\ qres.send_at - qres.now = 7200
    /\ qres.error = ""

\* The wall time of day of an instant, in seconds, and the day it falls on.
C34_TimeOfDay(zone, t) == WallOf(zone, t) % DAY_SECONDS
C34_Day(zone, t) == (WallOf(zone, t) - C34_TimeOfDay(zone, t)) \div DAY_SECONDS
C34_Asked == qres.hh * HOUR_SECONDS + qres.mm * MINUTE_SECONDS
C34_Parsed == qres.op = "parse" /\ qres.send_at # NULL

\* C34: for a bare HH:MM the parser returns that wall time on today's date
\* in the configured zone when that is strictly after now, and on the next
\* day otherwise; so the result is strictly after now and at most one day
\* after it.
C34_NextOccurrence ==
    C34_Parsed =>
        /\ C34_TimeOfDay(qres.zone, qres.send_at) = C34_Asked
        /\ C34_Day(qres.zone, qres.send_at) =
               C34_Day(qres.zone, qres.now)
                   + (IF C34_Asked > C34_TimeOfDay(qres.zone, qres.now) THEN 0 ELSE 1)
        /\ qres.send_at > qres.now
        /\ qres.send_at - qres.now <= DAY_SECONDS

\* The same in a zone whose offset never changes.
C34_NextOccurrenceFixedOffset ==
    (C34_Parsed /\ qres.zone.before = qres.zone.after) =>
        /\ C34_TimeOfDay(qres.zone, qres.send_at) = C34_Asked
        /\ C34_Day(qres.zone, qres.send_at) =
               C34_Day(qres.zone, qres.now)
                   + (IF C34_Asked > C34_TimeOfDay(qres.zone, qres.now) THEN 0 ELSE 1)
        /\ qres.send_at > qres.now
        /\ qres.send_at - qres.now <= DAY_SECONDS

\* Worker w's transport.send_message call is made in this step (it returns
\* or raises).
C35_Invokes(w) == wpc[w] = "send" /\ wpc'[w] \in {"mark_sent", "mark_failed"}

C35_NoLockAfterCancel ==
    [][ \A w \in Workers :
            (wpc[w] = "lock" /\ StatusOf(wmsg[w]) = "CANCELLED")
                => wpc'[w] \in {"lock", "not_locked", "down"} ]_vars

\* The transport has been invoked for record id: a worker is past its
\* transport call for it, or the outcome of one has been written to the row.
C36_Invoked(id) ==
    \/ \E w \in Workers : wmsg[w] = id /\ wpc[w] \in {"mark_sent", "mark_failed"}
    \/ StatusOf(id) \in {"SENT", "FAILED"}

C36_OneLock ==
    \A id \in RowIds : locks[id] <= 1 /\ sends[id] <= 1

C36_NoSecondCall ==
    \A w \in Workers : C35_Invokes(w) => ~C36_Invoked(wmsg[w])

\* C36: while no lease expires, the transport is invoked at most once per
\* record, however many workers poll the same due batch and however their
\* dispatches interleave: no record is locked twice, none is accepted by the
\* gateway twice, and no worker calls the transport for a record another call
\* was already made for.
C36_OneCallPerRecord ==
    []C36_OneLock /\ [][C36_NoSecondCall]_vars

\* C36 witness: both workers read the same record as due; one has sent it, the
\* other's lock call found it taken.
C36_Witness ==
    \E id \in RowIds : \E w, v \in Workers :
        /\ w # v
        /\ wmsg[w] = id /\ wpc[w] = "mark_sent"
        /\ wmsg[v] = id /\ wpc[v] = "not_locked"
        /\ sends[id] = 1 /\ locks[id] = 1

\* The step is a send_message_if_due call that reached the transport.
C37_Invokes ==
    /\ qres'.op = "dispatch" /\ qres'.ret \in {"sent", "raised"}
    /\ store' # store

C37_NotBeforeDue ==
    C37_Invokes => /\ store[qres'.id].send_at <= clock
                   /\ store'[qres'.id].send_at = store[qres'.id].send_at

C37_SentAfterDue ==
    \A id \in RowIds :
        StatusOf(id) = "SENT" => /\ store[id].sent_at # NULL
                                 /\ store[id].sent_at >= store[id].send_at

\* C37: the transport is never invoked for a record while the dispatching
\* caller's clock is earlier than the record's send_at, and every SENT record
\* has sent_at >= send_at.
C37_NeverEarly ==
    []C37_SentAfterDue /\ [][C37_NotBeforeDue]_vars

\* C37 witness: a dispatch has just sent a record, later than its send_at.
C37_Witness ==
    /\ qres.op = "dispatch" /\ qres.ret = "sent"
    /\ qres.id \in RowIds
    /\ StatusOf(qres.id) = "SENT"
    /\ store[qres.id].sent_at > store[qres.id].send_at
    /\ sends[qres.id] = 1

\* The workers' side of C37: a worker calls the transport only for a record
\* whose send_at is not later than the time the worker read.
C37_WorkerNeverEarly ==
    [][ \A w \in Workers :
            C35_Invokes(w) => store[wmsg[w]].send_at <= wnow[w] ]_vars

\* A non-empty text arrived for a flow in step `text`: schedule_message was
\* called with the flow's send_at.
C38_TextStep ==
    /\ FlowReply
    /\ StepBefore = "text"
    /\ Strip(eres.ev.text) # <<>>

\* The flow is back in step `when` with the recipient, the request id and the
\* sender it had; no record was created; the event was accepted with the
\* error text as reason.
C38_BackToWhen ==
    /\ StepAfter = "when"
    /\ flows[FlowKey].to_chat_id = eres.before.flows[FlowKey].to_chat_id
    /\ flows[FlowKey].request_id = eres.before.flows[FlowKey].request_id
    /\ flows[FlowKey].sender_id = eres.before.flows[FlowKey].sender_id
    /\ store = eres.before.store
    /\ eres.accepted
    /\ eres.reason = "send_at must be in the future"

\* C38: when schedule fails in step `text` because the flow's send_at is no
\* longer strictly in the future, the flow returns to step `when` keeping
\* its recipient and request_id, no record is created and the event is
\* accepted with the error text as reason; a step `text` that ends with any
\* other error leaves the flow in step `text`.
C38_PastTimeReturnsToWhen ==
    C38_TextStep =>
        /\ (eres.before.flows[FlowKey].send_at <= eres.ev.timestamp) => C38_BackToWhen
        /\ (eres.reason \notin {"", "send_at must be in the future"})
               => (StepAfter = "text" /\ store = eres.before.store)

\* C38 witness: the text arrived at the very second of the flow's send_at;
\* the flow is back in step `when`.
C38_Witness ==
    /\ C38_TextStep
    /\ eres.before.flows[FlowKey].send_at = eres.ev.timestamp
    /\ C38_BackToWhen
    /\ eres.ev.text = Hello

\* In step `text` schedule_message raises no other error: the flow's send_at
\* is aware, and in assistant mode a flow is opened by approved senders only,
\* whose id is not empty.
C38_NoOtherError ==
    C38_TextStep => eres.reason \in {"", "send_at must be in the future"}

\* A code-less !auth of a sender who is not approved, in a direct chat.
C39_Codeless ==
    /\ IsAuth
    /\ ~eres.ev.is_group
    /\ C18_Code = <<>>
    /\ ~is_sender_approved(eres.before.common, eres.ev.sender_id)

\* The sender's entry is the code just drawn, stamped with the event's time,
\* whatever was pending before; the other senders' entries are untouched.
C39_Replaced ==
    /\ eres.accepted
    /\ C18_Key \in DOMAIN pending
    /\ pending[C18_Key] = [code |-> eres.auth_code, updated_at |-> eres.ev.timestamp]
    /\ \A key \in (DOMAIN pending \cup DOMAIN eres.before.pending) \ {C18_Key} :
           /\ key \in DOMAIN pending
           /\ key \in DOMAIN eres.before.pending
           /\ pending[key] = eres.before.pending[key]

\* No other event writes a code: an entry that is new or changed is the one
\* a code-less !auth of that sender has just drawn.
C39_OnlyDrawnCodes ==
    \A key \in DOMAIN pending :
        (key \notin DOMAIN eres.before.pending \/ pending[key] # eres.before.pending[key])
            => (C39_Codeless /\ key = C18_Key)

\* `!auth <code>` of a sender with a live entry who is not approved: accepted
\* when the code is the entry's, rejected with invalid_auth_code otherwise.
C39_OnlyPendingCodeAccepted ==
    ( /\ ~eres.ev.is_group
      /\ C18_Code # <<>>
      /\ C26_Live(C18_Key)
      /\ ~is_sender_approved(eres.before.common, eres.ev.sender_id) )
        => IF C18_Code = eres.before.pending[C18_Key].code
           THEN eres.accepted /\ C18_Key \in approved_numbers(common)
           ELSE /\ ~eres.accepted
                /\ eres.reason = "invalid_auth_code"
                /\ C18_Key \notin approved_numbers(common)

\* C39: a new code-less !auth from a sender replaces that sender's pending
\* entry: afterwards the sender's entry holds the most recently generated
\* code, that code alone is accepted for the sender, and an earlier,
\* different code is rejected with invalid_auth_code.
C39_NewCodeReplacesOld ==
    IsAuth =>
        /\ C39_Codeless => C39_Replaced
        /\ C39_OnlyDrawnCodes
        /\ C39_OnlyPendingCodeAccepted

\* C39 witness: a code-less !auth came while another code of the sender was
\* pending and not expired; the new code has taken its place.
C39_Witness ==
    /\ C39_Codeless
    /\ C26_Live(C18_Key)
    /\ eres.before.pending[C18_Key].code # eres.auth_code
    /\ pending[C18_Key].code = eres.auth_code
    /\ eres.ev.timestamp > eres.before.pending[C18_Key].updated_at

\* The flows stored under the other keys are as they were: none was
\* created, changed or cleared.
C40_OtherFlowsKept ==
    \A key \in (DOMAIN flows \cup DOMAIN eres.before.flows) \ {FlowKey} :
        /\ key \in DOMAIN flows
        /\ key \in DOMAIN eres.before.flows
        /\ flows[key] = eres.before.flows[key]

\* The records the other flows created are as they were, and a new record is
\* the one of the event's own flow.
C40_OtherRecordsKept ==
    /\ Len(store) \in {Len(eres.before.store), Len(eres.before.store) + 1}
    /\ \A id \in 1..Len(eres.before.store) :
           \/ store[id] = eres.before.store[id]
           \/ /\ MetFlow
              /\ store[id].idempotency_key = eres.before.flows[FlowKey].request_id
    /\ Len(store) > Len(eres.before.store) =>
           /\ MetFlow
           /\ store[Len(store)].idempotency_key = eres.before.flows[FlowKey].request_id
           /\ store[Len(store)].from_chat_id = eres.ev.sender_id
           /\ store[Len(store)].chat_id = eres.before.flows[FlowKey].to_chat_id
           /\ store[Len(store)].send_at = eres.before.flows[FlowKey].send_at

\* The flow store with the entries of every key but `key` taken out.
C40_Alone(f, key) == [k \in DOMAIN f \cap {key} |-> f[k]]

\* What the handler would have done had no other key held a flow.
C40_HandledAlone ==
    handle_event([eres.before EXCEPT !.flows = C40_Alone(@, FlowKey)], eres.ev,
                 [PairEnv(eres.before.store) EXCEPT !.auth_code = eres.auth_code],
                 eres.ev.timestamp, assistant_mode)

\* The event was answered, and its own flow and the table were left, exactly
\* as if the other keys held no flow.
C40_Independent ==
    /\ eres.accepted = C40_HandledAlone.accepted
    /\ eres.reason = C40_HandledAlone.reason
    /\ eres.reply = C40_HandledAlone.reply
    /\ store = C40_HandledAlone.w.store
    /\ C40_Alone(flows, FlowKey) = C40_HandledAlone.w.flows

\* C40: an event from (chat_id, sender_id) never creates, modifies or clears
\* the flow stored under another key, so two senders in one chat, or one
\* sender in two chats, run independent add-flows: each event is handled as
\* if the other flows were not there, and the records of the other flows are
\* left as they were.
C40_FlowsAreIndependent ==
    eres.op = "event" =>
        C40_OtherFlowsKept /\ C40_OtherRecordsKept /\ C40_Independent

\* C40 witness: Sender1's text in Group1 completed that flow and created the
\* second record, while Sender2's flow in Group1 had created the first and
\* Sender1's flow in Group2 waits in step `when`.
C40_Witness ==
    /\ eres.op = "event"
    /\ FlowKey = <<Group1, Sender1>>
    /\ eres.reply = "Scheduled"
    /\ Len(store) = 2 /\ Len(eres.before.store) = 1
    /\ store[1].from_chat_id = Sender2
    /\ store[2].from_chat_id = Sender1
    /\ <<Group2, Sender1>> \in DOMAIN flows
    /\ flows[<<Group2, Sender1>>].step = "when"
    /\ FlowKey \notin DOMAIN flows

====
